---- MODULE Spec2Model ----
(***************************************************************************)
(* A model of the localhost HTTP server: the connection object             *)
(* (network/connection.rs), the event loop (network/server.rs), the        *)
(* readiness poller (network/epoll_wrapper.rs) and the request parser      *)
(* (http/request.rs).                                                      *)
(*                                                                         *)
(* Bytes.  A buffer is a sequence of atoms.  An atom is either one         *)
(* delimiter byte ("\r", "\n", " ", ":", "?", ";", "=", a digit) or a run   *)
(* of bytes that holds no delimiter ("GET", "HTTP/1.1", "Connection").     *)
(* The parser below splits on the delimiter atoms exactly where the Rust   *)
(* code splits on the delimiter bytes.                                     *)
(*                                                                         *)
(* Options.  Rust's Option<T> is a sequence of length at most one:         *)
(* None is <<>> and Some(x) is <<x>>.                                       *)
(*                                                                         *)
(* Time.  An Instant field holds the whole seconds elapsed since that      *)
(* instant (what Instant::elapsed().as_secs() returns), saturating one     *)
(* above the largest number it is ever compared with.                      *)
(***************************************************************************)
EXTENDS Integers, Sequences, FiniteSets, TLC

(***************************************************************************)
(* Program constants                                                       *)
(***************************************************************************)
IDLE_TIMEOUT_SECS == 30

MAX_REQUESTS_PER_CONN == 100

\* let mut temp = [0u8; 4096] in try_read
TEMP_SIZE == 4096

\* the deadline of run_cgi for the output of a script, in seconds
CGI_TIMEOUT_SECS == 5

(***************************************************************************)
(* Bounds of the model                                                     *)
(***************************************************************************)
\* descriptors the kernel hands out to accepted sockets: 1..MaxFds
MaxFds == 1

\* connections waiting in the listener's accept queue
MaxBacklog == 1

\* requests a client starts on one connection
MaxReqs == 2

\* requests the client starts on the connection in the long-lived run
MaxReqsLong == 102

\* pieces in which the bytes of one request arrive in the long-lived run
MaxSegsLong == 1

\* requests the client of the long-lived run has sent and not seen answered
MaxAheadLong == 1

\* requests a client starts on one connection in the run with a clock
MaxReqsTimed == 1

\* pieces in which the bytes of one request arrive
MaxSegs == 2

\* seconds that pass in one step of the clock
TickSecs == 10

\* the request timeout the design asks for; the code configures none
RequestTimeoutSecs == 10

\* descriptors the kernel hands out in the run with several clients
MaxFdsPair == 2

\* descriptors the kernel hands out in the run with clients that send nothing
MaxFdsIdle == 3

\* connections waiting in the accept queue in the run with several clients
MaxBacklogPair == 2

\* requests a client starts on one connection in the run with several clients
MaxReqsPair == 1

\* parts a client puts together to a multipart body, at most
MaxParts == 5

\* client_body_size_limit of the configuration the uploads are served under
UploadLimit == 100

\* the largest Content-Length a client announces
MaxLength == 3

\* bytes that follow the header section of a request with a Content-Length,
\* at most
MaxTail == 4

\* chunks before the zero-size chunk, at most
MaxChunks == 2

\* pieces a client puts behind the first "/" of a request path, at most
MaxPathPieces == 3

\* client_body_size_limit of the configurations the gates are checked under
GateLimit == 1

\* routes of a configuration, at most
MaxRoutes == 3

\* characters behind the first "/" of a request path that is matched
\* against routes, at most
MaxPathLen == 3

\* virtual hosts of a configuration, at most
MaxVhosts == 3

\* bytes a pipe between the server and a CGI child holds
PipeCapacity == 1

\* operations of the program of a CGI child
MaxChildOps == 3

\* bytes of the body of a request given to a CGI script
MaxCgiBody == 2

\* seconds the clock of a run of run_cgi is followed for
CgiElapsedCap == 8

\* pieces of the output of a CGI script
MaxOutputPieces == 5

\* bytes of the data of an uploaded part
MaxPartData == 3

\* components of the path of a file to delete
MaxDeleteComponents == 3

\* units (request heads and pieces of filler) a client that never completes
\* a request sends on a connection
MaxFlood == 4

\* the length of read_buffer the flooded server is checked against
MaxBuffer == 24

\* lines of a configuration text
MaxConfigLines == 4

(***************************************************************************)
(* Generic helpers                                                         *)
(***************************************************************************)
None == <<>>

Some(x) == <<x>>

Min(a, b) == IF a <= b THEN a ELSE b

Minimum(S) == CHOOSE x \in S : \A y \in S : x <= y

Take(s, n) == SubSeq(s, 1, n)

Drop(s, n) == SubSeq(s, n + 1, Len(s))

\* saturating age of an instant
AgeCap == IDLE_TIMEOUT_SECS + 1

Older(age, d) == Min(age + d, AgeCap)

IsWhitespace(a) == a \in {" ", "\t", "\r", "\n"}

\* str::trim on a sequence of atoms
RECURSIVE TrimStart(_)
TrimStart(s) ==
    IF s # <<>> /\ IsWhitespace(Head(s)) THEN TrimStart(Tail(s)) ELSE s

RECURSIVE TrimEnd(_)
TrimEnd(s) ==
    IF s # <<>> /\ IsWhitespace(s[Len(s)]) THEN TrimEnd(Take(s, Len(s) - 1)) ELSE s

Trim(s) == TrimEnd(TrimStart(s))

\* index (1-based) of the first atom of s at or after i equal to a, 0 when
\* there is none
RECURSIVE IndexFrom(_, _, _)
IndexFrom(s, a, i) ==
    IF i > Len(s) THEN 0 ELSE IF s[i] = a THEN i ELSE IndexFrom(s, a, i + 1)

IndexOf(s, a) == IndexFrom(s, a, 1)

\* str::split_once(a)
split_once(s, a) ==
    LET i == IndexOf(s, a)
    IN  IF i = 0 THEN None ELSE Some(<<Take(s, i - 1), Drop(s, i)>>)

\* ASCII lower-casing of an atom (the atoms of the model that have upper case)
to_ascii_lowercase(a) ==
    CASE a \in {"close", "Close", "CLOSE"} -> "close"
      [] a \in {"chunked", "Chunked", "CHUNKED"} -> "chunked"
      [] a \in {"get", "Get", "GET"} -> "get"
      [] a \in {"post", "Post", "POST"} -> "post"
      [] a \in {"delete", "Delete", "DELETE"} -> "delete"
      [] a \in {"status", "Status", "STATUS"} -> "status"
      [] a \in {"multipart/form-data", "Multipart/Form-Data"} -> "multipart/form-data"
      [] OTHER -> a

eq_ignore_ascii_case(v, w) ==
    /\ Len(v) = Len(w)
    /\ \A i \in 1..Len(v) : to_ascii_lowercase(v[i]) = to_ascii_lowercase(w[i])

\* str::lines: split at "\n", dropping one "\r" before it; no empty last line
StripCR(s) == IF s # <<>> /\ s[Len(s)] = "\r" THEN Take(s, Len(s) - 1) ELSE s

RECURSIVE lines(_)
lines(s) ==
    IF s = <<>> THEN <<>>
    ELSE LET i == IndexOf(s, "\n")
         IN  IF i = 0 THEN <<s>>
             ELSE <<StripCR(Take(s, i - 1))>> \o lines(Drop(s, i))

\* the length of the run of non-whitespace atoms of t after its first n atoms
RECURSIVE TokenLen(_, _)
TokenLen(t, n) ==
    IF n < Len(t) /\ ~IsWhitespace(t[n + 1]) THEN TokenLen(t, n + 1) ELSE n

\* str::split_whitespace: the maximal runs of non-whitespace atoms
RECURSIVE split_whitespace(_)
split_whitespace(s) ==
    LET t == TrimStart(s)
    IN  IF t = <<>> THEN <<>>
        ELSE LET n == TokenLen(t, 0)
             IN  <<Take(t, n)>> \o split_whitespace(Drop(t, n))

DigitAtoms == {"0", "1", "2", "3", "4", "5", "6", "7", "8", "9"}

HexAtoms ==
    DigitAtoms \cup {"a", "b", "c", "d", "e", "f", "A", "B", "C", "D", "E", "F"}

DigitVal(a) ==
    CASE a = "0" -> 0 [] a = "1" -> 1 [] a = "2" -> 2 [] a = "3" -> 3
      [] a = "4" -> 4 [] a = "5" -> 5 [] a = "6" -> 6 [] a = "7" -> 7
      [] a = "8" -> 8 [] a = "9" -> 9 [] a = "a" -> 10 [] a = "b" -> 11
      [] a = "c" -> 12 [] a = "d" -> 13 [] a = "e" -> 14 [] a = "f" -> 15
      [] a = "A" -> 10 [] a = "B" -> 11 [] a = "C" -> 12 [] a = "D" -> 13
      [] a = "E" -> 14 [] a = "F" -> 15

RECURSIVE RadixVal(_, _)
RadixVal(s, radix) ==
    IF s = <<>> THEN 0
    ELSE RadixVal(Take(s, Len(s) - 1), radix) * radix + DigitVal(s[Len(s)])

\* usize::from_str_radix (and str::parse::<usize>() for radix 10): an optional
\* "+", then one digit or more
from_str_radix(s, radix) ==
    LET body   == IF s # <<>> /\ Head(s) = "+" THEN Tail(s) ELSE s
        digits == IF radix = 16 THEN HexAtoms ELSE DigitAtoms
    IN  IF body # <<>> /\ \A i \in 1..Len(body) : body[i] \in digits
        THEN Some(RadixVal(body, radix))
        ELSE None

(***************************************************************************)
(* http/request.rs: the request parser                                     *)
(***************************************************************************)
\* buffer.windows(n).position(|w| w == pat), searched from offset i (0-based)
RECURSIVE WindowPosition(_, _, _)
WindowPosition(buffer, pat, i) ==
    IF i + Len(pat) > Len(buffer) THEN None
    ELSE IF SubSeq(buffer, i + 1, i + Len(pat)) = pat THEN Some(i)
    ELSE WindowPosition(buffer, pat, i + 1)

\* offset (0-based) of the first "\r\n\r\n" of the buffer
find_double_crlf(buffer) == WindowPosition(buffer, <<"\r", "\n", "\r", "\n">>, 0)

parse_request_line(line) ==
    LET parts == split_whitespace(line)
    IN  IF Len(parts) < 3 THEN None
        ELSE LET target == parts[2]
                 pq     == split_once(target, "?")
             IN  Some([method  |-> parts[1],
                       path    |-> IF pq = None THEN target ELSE pq[1][1],
                       query   |-> IF pq = None THEN <<>> ELSE pq[1][2],
                       version |-> parts[3]])

\* HashMap::insert
MapInsert(h, k, v) == [x \in (DOMAIN h) \cup {k} |-> IF x = k THEN v ELSE h[x]]

\* HashMap::get
MapGet(h, k) == IF k \in DOMAIN h THEN Some(h[k]) ELSE None

EmptyMap == [x \in {} |-> <<>>]

RECURSIVE parse_headers(_)
parse_headers(ls) ==
    IF ls = <<>> THEN EmptyMap
    ELSE LET before == parse_headers(Take(ls, Len(ls) - 1))
             kv     == split_once(ls[Len(ls)], ":")
         IN  IF kv = None THEN before
             ELSE MapInsert(before, Trim(kv[1][1]), Trim(kv[1][2]))

\* position of the first "\r\n" of data[pos..], relative to pos
FindCrlf(data, pos) == WindowPosition(Drop(data, pos), <<"\r", "\n">>, 0)

\* the loop without the CRLF that follows the data of a chunk
RECURSIVE ChunkLoopNoCrlf(_, _, _)
ChunkLoopNoCrlf(data, pos, body) ==
    LET line_end == FindCrlf(data, pos)
    IN  IF line_end = None THEN None
        ELSE LET size == from_str_radix(Trim(SubSeq(data, pos + 1, pos + line_end[1])), 16)
                 pos2 == pos + line_end[1] + 2
             IN  IF size = None THEN None
                 ELSE IF size[1] = 0 THEN Some(body)
                 ELSE IF pos2 + size[1] > Len(data) THEN None
                 ELSE ChunkLoopNoCrlf(data, pos2 + size[1],
                                      body \o SubSeq(data, pos2 + 1, pos2 + size[1]))

\* the loop of parse_chunked_from_buffer, from offset pos with body collected
RECURSIVE ChunkLoop(_, _, _)
ChunkLoop(data, pos, body) ==
    LET line_end == FindCrlf(data, pos)
    IN  IF line_end = None THEN None
        ELSE LET size_str == SubSeq(data, pos + 1, pos + line_end[1])
                 size     == from_str_radix(Trim(size_str), 16)
                 pos2     == pos + line_end[1] + 2
             IN  IF size = None THEN None
                 ELSE IF size[1] = 0 THEN Some(body)
                 ELSE IF pos2 + size[1] + 2 > Len(data) THEN None
                 ELSE ChunkLoop(data, pos2 + size[1] + 2,
                                body \o SubSeq(data, pos2 + 1, pos2 + size[1]))

parse_chunked_from_buffer(data) == ChunkLoop(data, 0, <<>>)

\* does the header value contain "chunked" once lower-cased
ContainsChunked(te) == \E i \in 1..Len(te) : to_ascii_lowercase(te[i]) = "chunked"

HttpRequest(rl, headers, body) ==
    [method |-> rl.method, path |-> rl.path, query |-> rl.query,
     version |-> rl.version, headers |-> headers, body |-> body]

\* the body is all that follows the header section
ParseBodyWhole(buffer, body_start, rl, headers) ==
    Some(HttpRequest(rl, headers, Drop(buffer, body_start)))

\* HttpRequest::parse from the body on (lines 52-92), the request line rl and
\* the headers being parsed and the body starting at offset body_start
ParseBody(buffer, body_start, rl, headers) ==
    LET cl == MapGet(headers, <<"Content-Length">>)
        te == MapGet(headers, <<"Transfer-Encoding">>)
    IN  IF cl # None
        THEN LET expected_size == from_str_radix(cl[1], 10)
                 available     == Len(buffer) - body_start
             IN  IF expected_size = None THEN None
                 ELSE IF available < expected_size[1] THEN None
                 ELSE Some(HttpRequest(rl, headers,
                            SubSeq(buffer, body_start + 1,
                                   body_start + expected_size[1])))
        ELSE IF te # None /\ ContainsChunked(te[1])
        THEN LET body == parse_chunked_from_buffer(Drop(buffer, body_start))
             IN  IF body = None THEN None
                 ELSE Some(HttpRequest(rl, headers, body[1]))
        ELSE Some(HttpRequest(rl, headers, <<>>))

\* HttpRequest::parse from the request line on (lines 37-50), ls being the
\* lines of the header section
ParseLines(buffer, body_start, ls) ==
    IF ls = <<>> THEN None
    ELSE IF parse_request_line(Head(ls)) = None THEN None
    ELSE ParseBody(buffer, body_start, parse_request_line(Head(ls))[1],
                   parse_headers(Tail(ls)))

\* HttpRequest::parse once the end of the header section was looked for
ParseSection(buffer, headers_end) ==
    IF headers_end = None THEN None
    ELSE ParseLines(buffer, headers_end[1] + 4, lines(Take(buffer, headers_end[1])))

\* HttpRequest::parse: None while the buffer holds no complete request
parse(buffer) == ParseSection(buffer, find_double_crlf(buffer))

(***************************************************************************)
(* http/response.rs and handlers/session.rs                                *)
(***************************************************************************)
HttpResponse_new(status_code, status_text) ==
    [status_code |-> status_code, status_text |-> status_text,
     headers |-> EmptyMap, body |-> <<>>]

set_header(resp, key, value) ==
    [resp EXCEPT !.headers = MapInsert(resp.headers, key, value)]

set_body(resp, body) == [resp EXCEPT !.body = body]

bad_request == HttpResponse_new(400, "Bad Request")

\* The wire form of a response.  Its head is one unit: the status line, the
\* header lines (a HashMap is written in no fixed order) with Content-Length
\* added when absent, and the empty line.  The body bytes follow.
to_bytes(resp) ==
    LET hs == IF "Content-Length" \in DOMAIN resp.headers THEN resp.headers
              ELSE MapInsert(resp.headers, "Content-Length", Len(resp.body))
    IN  << [status_code |-> resp.status_code, status_text |-> resp.status_text,
            headers |-> hs] >> \o resp.body

\* str::split(sep): the pieces between the separators, empty ones included
RECURSIVE split(_, _)
split(s, sep) ==
    LET i == IndexOf(s, sep)
    IN  IF i = 0 THEN <<s>> ELSE <<Take(s, i - 1)>> \o split(Drop(s, i), sep)

\* the loop of get_session_id over the parts of the Cookie header
RECURSIVE SessionOfParts(_)
SessionOfParts(parts) ==
    IF parts = <<>> THEN None
    ELSE LET part   == Trim(Head(parts))
             pieces == split(part, "=")
         IN  IF part # <<>> /\ Head(part) = "SID" /\ Len(pieces) >= 2
             THEN Some(Trim(pieces[2]))
             ELSE SessionOfParts(Tail(parts))

get_session_id(cookie_header) ==
    IF cookie_header = None THEN None
    ELSE SessionOfParts(split(cookie_header[1], ";"))

\* "SID_<epoch milliseconds>": opaque to the server
create_session_id == "SID_<epoch_ms>"

(***************************************************************************)
(* network/router.rs, as far as the event loop depends on it: the          *)
(* responses route_request may return for a request.  Which one it is      *)
(* depends on the configuration and on the file system.                    *)
(***************************************************************************)
error_response(code, message) ==
    set_body(HttpResponse_new(code, message), <<"<h1>code - message</h1>">>)

RouteOutcomes(request) ==
    IF request.version # <<"HTTP/1.1">>
    THEN {error_response(400, "Bad Request")}
    ELSE {set_body(set_header(HttpResponse_new(200, "OK"), "Content-Type", "text/html"),
                   <<"hi">>),
          error_response(404, "Not Found")}

(***************************************************************************)
(* network/connection.rs                                                   *)
(***************************************************************************)
ConnState == {"Reading", "Writing", "Closing"}

ClientConnection_new ==
    [state              |-> "Reading",
     read_buffer        |-> <<>>,
     write_buffer       |-> <<>>,
     bytes_written      |-> 0,
     last_activity      |-> 0,
     request_started_at |-> None,
     keep_alive         |-> TRUE,
     requests_handled   |-> 0]

\* What the socket answers to read() and to write(): kind is "Ok" (with the
\* bytes read, or the number of bytes accepted), "WouldBlock", "Interrupted"
\* or "Error".
Ok(x) == <<"Ok", x>>

Err(e) == <<"Err", e>>

\* try_read, given the socket's answer rd to stream.read(&mut temp)
try_read(self, rd) ==
    CASE rd.kind = "Ok" /\ Len(rd.data) = 0 ->
            [conn |-> self, res |-> Err("Closed")]
      [] rd.kind = "Ok" /\ Len(rd.data) > 0 ->
            [conn |-> [self EXCEPT
                          !.read_buffer = @ \o rd.data,
                          !.last_activity = 0,
                          !.request_started_at = IF @ = None THEN Some(0) ELSE @],
             res  |-> Ok(Len(rd.data))]
      [] rd.kind \in {"WouldBlock", "Interrupted"} ->
            [conn |-> self, res |-> Ok(0)]
      [] OTHER ->
            [conn |-> self, res |-> Err("IoError")]

write_complete(self) == self.bytes_written >= Len(self.write_buffer)

\* Faulty variant of try_write: counts the whole remainder as written
\* whatever the socket accepted.  C9_BytesWrittenExact fails with it.
try_write_whole(self, wr) ==
    IF self.bytes_written >= Len(self.write_buffer)
    THEN [conn |-> self, res |-> Ok(TRUE), io |-> FALSE]
    ELSE CASE wr.kind = "Ok" /\ wr.n = 0 ->
                 [conn |-> self, res |-> Ok(FALSE), io |-> TRUE]
           [] wr.kind = "Ok" /\ wr.n > 0 ->
                 LET c == [self EXCEPT !.bytes_written = Len(self.write_buffer),
                                       !.last_activity = 0]
                 IN  [conn |-> c, res |-> Ok(write_complete(c)), io |-> TRUE]
           [] wr.kind \in {"WouldBlock", "Interrupted"} ->
                 [conn |-> self, res |-> Ok(FALSE), io |-> TRUE]
           [] OTHER ->
                 [conn |-> self, res |-> Err("IoError"), io |-> TRUE]

\* try_write, given the socket's answer wr to stream.write(remaining); io tells
\* whether the socket was written to at all
try_write(self, wr) ==
    IF self.bytes_written >= Len(self.write_buffer)
    THEN [conn |-> self, res |-> Ok(TRUE), io |-> FALSE]
    ELSE CASE wr.kind = "Ok" /\ wr.n = 0 ->
                 [conn |-> self, res |-> Ok(FALSE), io |-> TRUE]
           [] wr.kind = "Ok" /\ wr.n > 0 ->
                 LET c == [self EXCEPT !.bytes_written = @ + wr.n,
                                       !.last_activity = 0]
                 IN  [conn |-> c, res |-> Ok(write_complete(c)), io |-> TRUE]
           [] wr.kind \in {"WouldBlock", "Interrupted"} ->
                 [conn |-> self, res |-> Ok(FALSE), io |-> TRUE]
           [] OTHER ->
                 [conn |-> self, res |-> Err("IoError"), io |-> TRUE]

queue_response(self, data) ==
    [self EXCEPT !.write_buffer = data, !.bytes_written = 0, !.state = "Writing"]

\* Faulty variant of reset_for_next_request: the state is left as it was.
\* C1_ExactlyOneWish fails with it.
reset_keeping_state(self) ==
    [self EXCEPT !.read_buffer = <<>>,
                 !.write_buffer = <<>>,
                 !.bytes_written = 0,
                 !.requests_handled = @ + 1,
                 !.request_started_at = None]

\* Faulty variant of reset_for_next_request: requests_handled is not counted.
\* C5_ResetOrCloseAfterWrite fails with it.
reset_without_count(self) ==
    [self EXCEPT !.read_buffer = <<>>,
                 !.write_buffer = <<>>,
                 !.bytes_written = 0,
                 !.state = "Reading",
                 !.request_started_at = None]

reset_for_next_request(self) ==
    [self EXCEPT !.read_buffer = <<>>,
                 !.write_buffer = <<>>,
                 !.bytes_written = 0,
                 !.state = "Reading",
                 !.requests_handled = @ + 1,
                 !.request_started_at = None]

is_idle_timeout(self, timeout_secs) == self.last_activity > timeout_secs

is_request_timeout(self, timeout_secs) ==
    IF self.request_started_at # None /\ self.state = "Reading"
    THEN self.request_started_at[1] > timeout_secs
    ELSE FALSE

wants_read(self) == self.state = "Reading"

wants_write(self) == self.state = "Writing" /\ ~write_complete(self)

\* Faulty variant of is_timed_out: no connection ever counts as timed out.
\* C35_WritingEnds fails with it.
is_timed_out_never(self, timeout_secs) == FALSE

\* Called by cleanup_connections; connection.rs defines no method of this
\* name.  Modelled from the specification's cleanup pass: the connection's
\* last_activity is more than the timeout ago.
is_timed_out(self, timeout_secs) == self.last_activity > timeout_secs

(***************************************************************************)
(* network/epoll_wrapper.rs and the kernel's side of a socket              *)
(***************************************************************************)
Interest_readable == [read |-> TRUE, write |-> FALSE]

Interest_writable == [read |-> FALSE, write |-> TRUE]

Interest_both == [read |-> TRUE, write |-> TRUE]

\* the event mask registered for an interest: errors and hangups always
build_event_mask(interest) ==
    (IF interest.read THEN {"EPOLLIN"} ELSE {})
        \cup (IF interest.write THEN {"EPOLLOUT"} ELSE {})
        \cup {"EPOLLERR", "EPOLLHUP"}

\* A socket as the kernel sees it: inbound holds the bytes that arrived and
\* were not read yet, unsent the bytes of the client's current request still
\* on their way, segs in how many pieces that request arrived so far, peer whether the client is connected ("open"), has closed
\* its side ("fin") or has reset the connection ("rst").
Socket_new == [inbound |-> <<>>, unsent |-> <<>>, segs |-> 0, peer |-> "open"]

\* what the kernel reports for a socket (level-triggered); writable tells
\* whether its send buffer has room
ReadyFlags(sock, writable) ==
    (IF sock.inbound # <<>> \/ sock.peer # "open" THEN {"EPOLLIN"} ELSE {})
        \cup (IF writable THEN {"EPOLLOUT"} ELSE {})
        \cup (IF sock.peer = "rst" THEN {"EPOLLERR", "EPOLLHUP"} ELSE {})

\* the SocketEvent that poll builds from the flags epoll_wait returns
SocketEvent(fd, flags) ==
    [fd        |-> fd,
     can_read  |-> "EPOLLIN" \in flags,
     can_write |-> "EPOLLOUT" \in flags,
     has_error |-> "EPOLLERR" \in flags,
     hung_up   |-> "EPOLLHUP" \in flags]

\* the answers stream.read may give on a socket
StreamRead(sock) ==
    IF sock.peer = "rst" THEN {[kind |-> "Error", data |-> <<>>]}
    ELSE IF sock.inbound # <<>>
    THEN {[kind |-> "Ok", data |-> Take(sock.inbound, Min(Len(sock.inbound), TEMP_SIZE))],
          [kind |-> "Interrupted", data |-> <<>>]}
    ELSE IF sock.peer = "fin" THEN {[kind |-> "Ok", data |-> <<>>]}
    ELSE {[kind |-> "WouldBlock", data |-> <<>>]}

\* the answers stream.write may give for `remaining` bytes
StreamWrite(sock, remaining) ==
    IF sock.peer = "rst" THEN {[kind |-> "Error", n |-> 0]}
    ELSE {[kind |-> "Ok", n |-> n] : n \in 0..remaining}
            \cup {[kind |-> k, n |-> 0] : k \in {"WouldBlock", "Interrupted"}}

(***************************************************************************)
(* network/server.rs: the handlers of the event loop                       *)
(***************************************************************************)
\* Faulty variant of handle_read: the request counts as ready as soon as
\* bytes arrived.  C2_ResponsesOrdered fails with it.
handle_read_eager(client, rd) ==
    LET r == try_read(client, rd)
    IN  IF r.res[1] = "Err" THEN [conn |-> r.conn, res |-> r.res, parses |-> 0]
        ELSE IF r.res[2] = 0 THEN [conn |-> r.conn, res |-> Ok(FALSE), parses |-> 0]
        ELSE [conn |-> r.conn, res |-> Ok(TRUE), parses |-> 0]

\* handle_read: one read, then one parse of the buffer when bytes arrived
handle_read(client, rd) ==
    LET r == try_read(client, rd)
    IN  IF r.res[1] = "Err" THEN [conn |-> r.conn, res |-> r.res, parses |-> 0]
        ELSE IF r.res[2] = 0 THEN [conn |-> r.conn, res |-> Ok(FALSE), parses |-> 0]
        ELSE [conn |-> r.conn, res |-> Ok(parse(r.conn.read_buffer) # None),
              parses |-> 1]

\* handle_write: one write
handle_write(client, wr) == try_write(client, wr)

\* keep_alive as process_and_queue_response derives it from the request
KeepAliveOf(request) ==
    LET v == MapGet(request.headers, <<"Connection">>)
    IN  IF v = None THEN TRUE ELSE ~eq_ignore_ascii_case(v[1], <<"close">>)

\* the session cookie process_and_queue_response adds to the response when the
\* request carries no session id
WithSessionCookie(response, request) ==
    IF get_session_id(MapGet(request.headers, <<"Cookie">>)) = None
    THEN set_header(response, "Set-Cookie",
                    <<"SID", "=", create_session_id, ";", " ", "Path", "=", "/",
                      ";", " ", "HttpOnly">>)
    ELSE response

\* the Connection headers process_and_queue_response sets on the response
WithConnectionHeaders(response, keep_alive) ==
    IF keep_alive
    THEN set_header(set_header(response, "Connection", "keep-alive"),
                    "Keep-Alive", "timeout=30, max=100")
    ELSE set_header(response, "Connection", "close")

\* process_and_queue_response once the buffer was parsed into request; routed
\* is what route_request returns
QueueResponseFor(client, request, routed) ==
    IF request = None
    THEN [queue_response(client, to_bytes(bad_request)) EXCEPT !.keep_alive = FALSE]
    ELSE queue_response(
             [client EXCEPT !.keep_alive = KeepAliveOf(request[1])],
             to_bytes(WithConnectionHeaders(WithSessionCookie(routed, request[1]),
                                            KeepAliveOf(request[1]))))

\* process_and_queue_response; routed is what route_request returns
process_and_queue_response(client, routed) ==
    QueueResponseFor(client, parse(client.read_buffer), routed)

\* Faulty variant of get_interest_for_state: a connection that writes stays
\* registered for reading too.  C8_OneReadOrOneWrite fails with it.
get_interest_both_when_writing(state) ==
    CASE state = "Reading" -> Interest_readable
      [] state = "Writing" -> Interest_both
      [] state = "Closing" -> Interest_readable

\* Faulty variant of get_interest_for_state: read interest in every state.
\* C37_InterestMatchesState fails with it.
get_interest_always_readable(state) == Interest_readable

get_interest_for_state(state) ==
    CASE state = "Reading" -> Interest_readable
      [] state = "Writing" -> Interest_writable
      [] state = "Closing" -> Interest_readable

\* The readable half of the loop body for one event of a client socket
\* (run, lines 91-113) once handle_read returned hr.
ReadStepAfter(hr, do_read, close0, rd, routed) ==
    [conn    |-> IF do_read /\ hr.res = Ok(TRUE)
                 THEN process_and_queue_response(hr.conn, routed)
                 ELSE hr.conn,
     close   |-> close0 \/ (do_read /\ hr.res[1] = "Err"),
     ready   |-> do_read /\ hr.res = Ok(TRUE),
     do_read |-> do_read,
     read_n  |-> IF do_read /\ hr.res[1] = "Ok" /\ rd.kind = "Ok"
                 THEN Len(rd.data) ELSE 0,
     parses  |-> IF do_read
                 THEN hr.parses + (IF hr.res = Ok(TRUE) THEN 1 ELSE 0) ELSE 0]

\* Faulty variant of ReadStep: a readable event is read whatever else the
\* event carries.  C31_ErrorEventClosesWithoutIo fails with it.
ReadStep_despite_error(client, event, rd, routed) ==
    IF event.can_read
    THEN ReadStepAfter(handle_read(client, rd), TRUE, FALSE, rd, routed)
    ELSE ReadStepAfter([conn |-> client, res |-> Ok(FALSE), parses |-> 0], FALSE,
                       event.has_error \/ event.hung_up, rd, routed)

\* The readable half of the loop body for one event of a client socket
\* (run, lines 91-113), given the socket's answer rd and the response routed
\* that route_request returns.
ReadStep(client, event, rd, routed) ==
    IF event.can_read /\ ~(event.has_error \/ event.hung_up)
    THEN ReadStepAfter(handle_read(client, rd), TRUE, FALSE, rd, routed)
    ELSE ReadStepAfter([conn |-> client, res |-> Ok(FALSE), parses |-> 0], FALSE,
                       event.has_error \/ event.hung_up, rd, routed)

\* the Connection header of the response whose bytes are in write_buffer
ConnectionOf(write_buffer) ==
    IF write_buffer # <<>> /\ "Connection" \in DOMAIN write_buffer[1].headers
    THEN Some(write_buffer[1].headers["Connection"])
    ELSE None

\* The rest of the loop body (run, lines 115-149) after the readable half
\* gave rs, given the socket's answer wr to the write and whether
\* poller.modify succeeds.
WriteStep(rs, event, wr, modify_ok) ==
    LET c1         == rs.conn
        do_write   == event.can_write /\ ~rs.close
        hw         == handle_write(c1, wr)
        write_done == do_write /\ hw.res = Ok(TRUE)
        do_reset   == /\ write_done
                      /\ hw.conn.keep_alive
                      /\ hw.conn.requests_handled < MAX_REQUESTS_PER_CONN
        c2         == IF ~do_write THEN c1
                      ELSE IF do_reset THEN reset_for_next_request(hw.conn)
                      ELSE hw.conn
        close2     == \/ rs.close
                      \/ (do_write /\ hw.res[1] = "Err")
                      \/ (write_done /\ ~do_reset)
        do_modify  == (rs.ready \/ do_reset) /\ ~close2
        close3     == close2 \/ (do_modify /\ ~modify_ok)
    IN  [conn       |-> IF close3 THEN [c2 EXCEPT !.state = "Closing"] ELSE c2,
         modified   |-> do_modify /\ modify_ok,
         interest   |-> get_interest_for_state(c2.state),
         \* what the handlers did, for the history variables
         read_io    |-> rs.do_read,
         read_n     |-> rs.read_n,
         parses     |-> rs.parses,
         queued     |-> rs.ready,
         write_io   |-> do_write /\ hw.io,
         write_n    |-> IF do_write /\ hw.io /\ wr.kind = "Ok" THEN wr.n ELSE 0,
         write_err  |-> do_write /\ hw.res[1] = "Err",
         bw_before  |-> c1.bytes_written,
         bw_after   |-> IF do_write THEN hw.conn.bytes_written ELSE c1.bytes_written,
         wb_len     |-> Len(c1.write_buffer),
         write_done |-> write_done,
         did_reset  |-> do_reset,
         modify_failed |-> do_modify /\ ~modify_ok,
         event      |-> event,
         resp_connection |-> ConnectionOf(c1.write_buffer)]

\* Faulty variant of fds_to_remove: only the Closing connections are
\* collected.  C6_IdleConnectionsRemoved fails with it.
fds_to_remove_closing_only(cs) ==
    {fd \in DOMAIN cs : cs[fd].state = "Closing"}

\* Faulty variant of fds_to_remove: every connection is collected.
\* C32_CleanupRemovesExactly fails with it.
fds_to_remove_all(cs) == DOMAIN cs

\* the connections cleanup_connections removes
fds_to_remove(cs) ==
    {fd \in DOMAIN cs :
        cs[fd].state = "Closing" \/ is_timed_out(cs[fd], IDLE_TIMEOUT_SECS)}

(***************************************************************************)
(* The file system and the handlers                                        *)
(*                                                                         *)
(* A file path is a sequence of names and a name a sequence of atoms; a    *)
(* file system fs maps the paths that exist to their kind ("file" or       *)
(* "dir") and content.  A call returns its response, or None when it       *)
(* panics, and the file operations it performed.                           *)
(***************************************************************************)
Out(response, effects) == [response |-> Some(response), effects |-> effects]

Panic(effects) == [response |-> None, effects |-> effects]

Effect(op, path) == [op |-> op, path |-> path]

\* handlers/static_files.rs
serve_file(file_path, fs) ==
    IF file_path \in DOMAIN fs /\ fs[file_path].kind = "file"
    THEN Ok(fs[file_path].content)
    ELSE Err("File not found")

\* the file operations of serve_file: fs::read of a path that exists
serve_file_effects(file_path, fs) ==
    IF file_path \in DOMAIN fs THEN {Effect("read", file_path)} ELSE {}

\* "{error_path}/{code}.html"
error_file(error_path, code) == <<error_path, <<ToString(code), ".html">>>>

\* error_response of router.rs: the error page, else a heading
ErrorResponse(code, error_path, message, fs) ==
    Out(IF serve_file(error_file(error_path, code), fs)[1] = "Ok"
        THEN set_body(set_header(HttpResponse_new(code, message),
                                 "Content-Type", "text/html"),
                      serve_file(error_file(error_path, code), fs)[2])
        ELSE error_response(code, message),
        serve_file_effects(error_file(error_path, code), fs))

\* error_response of upload_file.rs: its fallback is a whole HTML document
UploadErrorResponse(code, error_path, message, fs) ==
    Out(set_body(set_header(HttpResponse_new(code, message),
                            "Content-Type", "text/html"),
                 IF serve_file(error_file(error_path, code), fs)[1] = "Ok"
                 THEN serve_file(error_file(error_path, code), fs)[2]
                 ELSE <<"<!DOCTYPE html><html><body><h1>code - message</h1></body></html>">>),
        serve_file_effects(error_file(error_path, code), fs))

\* the mutation of sanitize_filename that keeps every character
sanitize_filename_keep_all(name) == name

\* sanitize_filename: the characters that are ASCII letters, digits, ".",
\* "-" or "_" (an atom that is no delimiter holds only such characters)
sanitize_filename(name) ==
    SelectSeq(name, LAMBDA a : a \notin {"/", "\\", " ", ":", ";", "=", "\"", "\r",
                                         "\n", "?", "%", "+", "NUL"})

\* save_file: File::create fails for an empty name, for "." and for ".."
\* (the path is a directory)
save_file(dir, filename, data, error_path, fs) ==
    IF sanitize_filename(filename) \notin {<<>>, <<".">>, <<".", ".">>}
    THEN Out(set_body(HttpResponse_new(200, "OK"),
                      <<"File '">> \o sanitize_filename(filename)
                          \o <<"' uploaded successfully">>),
             {[op |-> "write", path |-> <<dir, sanitize_filename(filename)>>,
               data |-> data]})
    ELSE UploadErrorResponse(500, error_path, "Internal Server Error", fs)

starts_with(s, prefix) == Len(prefix) <= Len(s) /\ Take(s, Len(prefix)) = prefix

\* str::trim_matches('"')
RECURSIVE trim_matches(_, _)
trim_matches(s, a) ==
    IF s # <<>> /\ Head(s) = a THEN trim_matches(Tail(s), a)
    ELSE IF s # <<>> /\ s[Len(s)] = a THEN trim_matches(Take(s, Len(s) - 1), a)
    ELSE s

\* extract_boundary over the parts of the Content-Type
RECURSIVE BoundaryOfParts(_)
BoundaryOfParts(parts) ==
    IF parts = <<>> THEN None
    ELSE IF starts_with(Trim(Head(parts)), <<"boundary", "=">>)
    THEN Some(trim_matches(Trim(IF Len(split(Head(parts), "=")) >= 2
                                THEN split(Head(parts), "=")[2] ELSE <<>>), "\""))
    ELSE BoundaryOfParts(Tail(parts))

extract_boundary(ct) == BoundaryOfParts(split(ct, ";"))

\* the filename of the part headers: what follows the first `filename="` up
\* to the next quote, "upload.bin" when there is none
FilenameOf(headers) ==
    LET at == WindowPosition(headers, <<"filename", "=", "\"">>, 0)
    IN  IF at = None THEN <<"upload.bin">>
        ELSE Take(Drop(headers, at[1] + 3),
                  IF IndexOf(Drop(headers, at[1] + 3), "\"") = 0
                  THEN Len(headers)
                  ELSE IndexOf(Drop(headers, at[1] + 3), "\"") - 1)

\* handle_multipart from the slice &body[pos..data_end] on (lines 60-66).
\* The slice panics when data_end is before pos or beyond the body.
MultipartSave(body, pos, data_end, max_size, error_path, fs) ==
    IF data_end < pos \/ data_end > Len(body) THEN Panic({})
    ELSE IF data_end - pos > max_size
    THEN UploadErrorResponse(413, error_path, "Payload Too Large", fs)
    ELSE save_file(<<"uploads">>, FilenameOf(Take(body, pos)),
                   SubSeq(body, pos + 1, data_end), error_path, fs)

\* handle_multipart from the search for the next boundary on (lines 54-66),
\* at the offset of the delimiter in body[pos..], if any.  pos + i - 2 below
\* zero panics where overflow is checked and wraps to a number beyond the
\* body where it is not, and then the slice panics.
MultipartData(body, pos, at, max_size, error_path, fs) ==
    IF at = None
    THEN MultipartSave(body, pos, Len(body), max_size, error_path, fs)
    ELSE IF pos + at[1] < 2 THEN Panic({})
    ELSE MultipartSave(body, pos, pos + at[1] - 2, max_size, error_path, fs)

\* handle_multipart with the boundary extracted and pos found (lines 33-66)
MultipartFrom(body, delim, pos, max_size, error_path, fs) ==
    MultipartData(body, pos, WindowPosition(Drop(body, pos), delim, 0),
                  max_size, error_path, fs)

handle_multipart(ct, body, max_size, error_path, fs) ==
    IF extract_boundary(ct) = None
    THEN UploadErrorResponse(400, error_path, "Bad Request", fs)
    ELSE MultipartFrom(body, <<"-", "-">> \o extract_boundary(ct)[1],
                       IF find_double_crlf(body) = None THEN 0
                       ELSE find_double_crlf(body)[1] + 4,
                       max_size, error_path, fs)

\* upload_file; a request without X-Filename is saved under a name made of
\* the time in milliseconds
upload_file(request, max_size, error_path, fs) ==
    IF Len(request.body) > max_size
    THEN UploadErrorResponse(413, error_path, "Payload Too Large", fs)
    ELSE IF /\ <<"Content-Type">> \in DOMAIN request.headers
            /\ request.headers[<<"Content-Type">>] # <<>>
            /\ to_ascii_lowercase(Head(request.headers[<<"Content-Type">>]))
                  = "multipart/form-data"
    THEN handle_multipart(request.headers[<<"Content-Type">>], request.body,
                          max_size, error_path, fs)
    ELSE save_file(<<"uploads">>,
                   IF <<"X-Filename">> \in DOMAIN request.headers
                   THEN request.headers[<<"X-Filename">>]
                   ELSE <<"upload-<epoch_ms>.bin">>,
                   request.body, error_path, fs)

(***************************************************************************)
(* handlers/remove_file.rs, handlers/directory.rs, handlers/cgi.rs         *)
(***************************************************************************)
\* str::trim_start_matches
RECURSIVE trim_start_matches(_, _)
trim_start_matches(s, a) ==
    IF s # <<>> /\ Head(s) = a THEN trim_start_matches(Tail(s), a) ELSE s

\* s.contains(pat)
Contains(s, pat) == WindowPosition(s, pat, 0) # None

\* the names Path::components yields as Normal: the pieces between "/" that
\* are neither empty nor "."
NormalNames(pieces) == SelectSeq(pieces, LAMBDA x : x # <<>> /\ x # <<".">>)

extract_file_path(uri) ==
    IF starts_with(trim_start_matches(uri, "/"), <<"upload">>)
    THEN trim_start_matches(Tail(trim_start_matches(uri, "/")), "/")
    ELSE trim_start_matches(uri, "/")

\* build_safe_path: the loop stops at the first ".." (a relative path has no
\* root component)
build_safe_path(base_dir, relative) ==
    LET pieces == split(relative, "/")
        stop   == IF \E i \in 1..Len(pieces) : pieces[i] = <<".", ".">>
                  THEN Minimum({i \in 1..Len(pieces) : pieces[i] = <<".", ".">>})
                  ELSE Len(pieces) + 1
    IN  <<base_dir>> \o NormalNames(Take(pieces, stop - 1))

\* is_safe_path of remove_file.rs
is_safe_path(path) ==
    /\ Head(path) = <<"uploads">>
    /\ \A i \in 1..Len(path) : ~Contains(path[i], <<".", ".">>)

\* delete_file with the path built
DeleteAt(full_path, fs) ==
    IF ~is_safe_path(full_path) THEN Out(HttpResponse_new(403, "Forbidden"), {})
    ELSE IF full_path \in DOMAIN fs /\ fs[full_path].kind = "file"
    THEN Out(set_body(HttpResponse_new(200, "OK"), <<"File deleted successfully">>),
             {Effect("delete", full_path)})
    ELSE Out(HttpResponse_new(404, "Not Found"), {})

delete_file(request, fs) ==
    DeleteAt(build_safe_path(<<"uploads">>, extract_file_path(request.path)), fs)

\* list_directory: the names of the entries are written into the listing
list_directory(path, uri, fs) ==
    IF path \in DOMAIN fs /\ fs[path].kind = "dir"
    THEN Out(set_body(set_header(HttpResponse_new(200, "OK"),
                                 "Content-Type", "text/html"),
                      <<"<h1>Index of ">> \o uri \o <<"</h1><ul>", "<li>..</li>", "</ul>">>),
             {Effect("list", path)})
    ELSE Out(HttpResponse_new(404, "Not Found"), {})

\* run_cgi: 404 when the script does not exist; the run of the script is one
\* outcome here
run_cgi(script_path, path_info, request, fs) ==
    IF script_path \notin DOMAIN fs
    THEN Out(set_body(HttpResponse_new(404, "Not Found"), <<"CGI script not found">>), {})
    ELSE Out(set_body(HttpResponse_new(200, "OK"), <<"<cgi output>">>),
             {Effect("exec", script_path)})

\* extract_cgi_headers_body: the output is cut at its first "\r\n\r\n" if it
\* has one, else at its first "\n\n", else it is all body
extract_cgi_headers_body(raw) ==
    LET crlf == WindowPosition(raw, <<"\r", "\n", "\r", "\n">>, 0)
        lf   == WindowPosition(raw, <<"\n", "\n">>, 0)
    IN  IF crlf # None THEN <<Take(raw, crlf[1]), Drop(raw, crlf[1] + 4)>>
        ELSE IF lf # None THEN <<Take(raw, lf[1]), Drop(raw, lf[1] + 2)>>
        ELSE <<<<>>, raw>>

\* str::parse::<u16>()
parse_u16(s) ==
    LET n == from_str_radix(s, 10)
    IN  IF n # None /\ n[1] <= 65535 THEN n ELSE None

\* the Status header of a CGI script: "<code> <text>"
CgiStatus(resp, val) ==
    LET ct == split_once(val, " ")
    IN  IF ct # None /\ parse_u16(ct[1][1]) # None
        THEN [resp EXCEPT !.status_code = parse_u16(ct[1][1])[1],
                          !.status_text = ct[1][2]]
        ELSE resp

\* the body of run_cgi's loop over the lines of the header part
CgiHeaderLine(resp, line) ==
    LET kv == split_once(Trim(line), ":")
    IN  IF kv = None THEN resp
        ELSE IF eq_ignore_ascii_case(Trim(kv[1][1]), <<"Status">>)
        THEN CgiStatus(resp, Trim(kv[1][2]))
        ELSE set_header(resp, Trim(kv[1][1]), Trim(kv[1][2]))

RECURSIVE CgiHeaderLines(_, _)
CgiHeaderLines(resp, ls) ==
    IF ls = <<>> THEN resp
    ELSE CgiHeaderLines(CgiHeaderLine(resp, Head(ls)), Tail(ls))

\* the response run_cgi builds from the header part and the body part
CgiResponseOf(headers_part, body_part) ==
    LET resp == CgiHeaderLines(HttpResponse_new(200, "OK"), lines(headers_part))
    IN  set_body(IF <<"Content-Type">> \in DOMAIN resp.headers THEN resp
                 ELSE set_header(resp, <<"Content-Type">>,
                                 <<"text/plain; charset=utf-8">>),
                 body_part)

\* run_cgi after the child is gone: the response built from what the child
\* wrote to stdout and stderr
cgi_response(stdout_buf, stderr_buf) ==
    IF stdout_buf = <<>>
    THEN set_body(HttpResponse_new(500, "Internal Server Error"),
                  IF Trim(stderr_buf) = <<>> THEN <<"CGI produced no output">>
                  ELSE <<"CGI error: ">> \o stderr_buf)
    ELSE CgiResponseOf(extract_cgi_headers_body(stdout_buf)[1],
                       extract_cgi_headers_body(stdout_buf)[2])

(***************************************************************************)
(* network/router.rs                                                       *)
(***************************************************************************)
\* `byte as char` for the bytes the model names
CharOf(byte) ==
    CASE byte = 0 -> "NUL" [] byte = 32 -> " " [] byte = 37 -> "%"
      [] byte = 43 -> "+" [] byte = 46 -> "." [] byte = 47 -> "/"
      [] byte = 97 -> "a" [] byte = 98 -> "b"
      [] OTHER -> "#" \o ToString(byte)

\* url_decode over a path of one-character atoms
RECURSIVE url_decode(_)
url_decode(s) ==
    IF s = <<>> THEN <<>>
    ELSE IF Head(s) = "%"
    THEN LET hex == Take(Tail(s), 2)
         IN  IF Len(hex) = 2 /\ from_str_radix(hex, 16) # None
             THEN <<CharOf(from_str_radix(hex, 16)[1])>> \o url_decode(Drop(s, 3))
             ELSE <<"%">> \o hex \o url_decode(Drop(s, 1 + Len(hex)))
    ELSE IF Head(s) = "+" THEN <<" ">> \o url_decode(Tail(s))
    ELSE <<Head(s)>> \o url_decode(Tail(s))

\* the checks of is_path_safe on the path as it was sent
is_path_safe_undecoded(path) ==
    /\ ~Contains(path, <<".", ".">>)
    /\ ~Contains(path, <<"NUL">>)
    /\ ~Contains(path, <<"/", "/">>)

is_path_safe(path) ==
    /\ ~Contains(url_decode(path), <<".", ".">>)
    /\ ~Contains(url_decode(path), <<"NUL">>)
    /\ ~Contains(url_decode(path), <<"/", "/">>)

\* sanitize_path with the path decoded and split at "/".  No path of the
\* file system is a symbolic link, so a path that exists is its own
\* canonical form.
SanitizePieces(base, decoded, pieces, fs) ==
    IF decoded # <<>> /\ Head(decoded) = "/" THEN None
    ELSE IF \E i \in 1..Len(pieces) : pieces[i] = <<".", ".">> \/ Contains(pieces[i], <<"NUL">>)
    THEN None
    ELSE IF <<base>> \o NormalNames(pieces) \in DOMAIN fs
    THEN Some(<<base>> \o NormalNames(pieces))
    ELSE IF \A i \in 1..Len(pieces) : ~Contains(pieces[i], <<".", ".">>)
    THEN Some(<<base>> \o NormalNames(pieces))
    ELSE None

sanitize_path(base, user_path, fs) ==
    SanitizePieces(base, url_decode(user_path), split(url_decode(user_path), "/"), fs)

\* the first of the routes whose path is a prefix
FindRouteFirst(path, routes, i) ==
    IF \E j \in 1..i : starts_with(path, routes[j].path)
    THEN Minimum({j \in 1..i : starts_with(path, routes[j].path)})
    ELSE 0

\* the index of the route find_route returns among routes[1..i], 0 for none:
\* max_by_key keeps the last of the routes of maximal length
RECURSIVE FindRouteIndex(_, _, _)
FindRouteIndex(path, routes, i) ==
    IF i = 0 THEN 0
    ELSE IF ~starts_with(path, routes[i].path) THEN FindRouteIndex(path, routes, i - 1)
    ELSE LET before == FindRouteIndex(path, routes, i - 1)
         IN  IF before # 0 /\ Len(routes[before].path) > Len(routes[i].path)
             THEN before ELSE i

find_route(request, routes) ==
    IF FindRouteIndex(request.path, routes, Len(routes)) = 0 THEN None
    ELSE Some(routes[FindRouteIndex(request.path, routes, Len(routes))])

\* the virtual host whose name is the whole Host header
find_vhost_whole_header(request, vhosts) ==
    LET host  == MapGet(request.headers, <<"Host">>)
        found == {i \in 1..Len(vhosts) : Some(vhosts[i].name) = host}
    IN  IF found = {} THEN None ELSE Some(vhosts[Minimum(found)])

find_vhost(request, vhosts) ==
    LET host  == IF <<"Host">> \in DOMAIN request.headers
                 THEN Some(split(request.headers[<<"Host">>], ":")[1])
                 ELSE None
        found == {i \in 1..Len(vhosts) : Some(vhosts[i].name) = host}
    IN  IF found = {} THEN None ELSE Some(vhosts[Minimum(found)])

get_content_type(file_path) ==
    IF file_path[Len(file_path)] # <<>>
       /\ file_path[Len(file_path)][Len(file_path[Len(file_path)])]
             \in {".html", "index.html"}
    THEN "text/html"
    ELSE "application/octet-stream"

\* route_request from the test path_obj.is_file() on (lines 227-263)
ServeStatic(file_path, request, route, error_path, fs) ==
    IF file_path \in DOMAIN fs /\ fs[file_path].kind = "file"
    THEN Out(set_body(set_header(HttpResponse_new(200, "OK"),
                                 "Content-Type", get_content_type(file_path)),
                      serve_file(file_path, fs)[2]),
             serve_file_effects(file_path, fs))
    ELSE IF file_path \in DOMAIN fs /\ fs[file_path].kind = "dir"
    THEN IF /\ route.default_file # None
            /\ serve_file(Append(file_path, route.default_file[1]), fs)[1] = "Ok"
         THEN Out(set_body(set_header(HttpResponse_new(200, "OK"),
                                      "Content-Type", "text/html"),
                           serve_file(Append(file_path, route.default_file[1]), fs)[2]),
                  serve_file_effects(Append(file_path, route.default_file[1]), fs))
         ELSE IF route.autoindex
         THEN LET listed == list_directory(file_path, request.path, fs)
              IN  [listed EXCEPT !.effects = @ \cup
                      (IF route.default_file = None THEN {}
                       ELSE serve_file_effects(Append(file_path, route.default_file[1]), fs))]
         ELSE LET refused == ErrorResponse(403, error_path, "Forbidden", fs)
              IN  [refused EXCEPT !.effects = @ \cup
                      (IF route.default_file = None THEN {}
                       ELSE serve_file_effects(Append(file_path, route.default_file[1]), fs))]
    ELSE ErrorResponse(404, error_path, "Not Found", fs)

\* route_request for a static route, after is the request path behind the
\* route's prefix and the slashes that follow it (lines 195-263)
RouteStatic(request, route, after, error_path, fs) ==
    IF after = <<>>
    THEN ServeStatic(IF route.path = <<"/">> /\ route.default_file # None
                     THEN <<route.root, route.default_file[1]>>
                     ELSE <<route.root>>,
                     request, route, error_path, fs)
    ELSE IF sanitize_path(route.root, after, fs) = None
    THEN ErrorResponse(403, error_path, "Forbidden", fs)
    ELSE ServeStatic(sanitize_path(route.root, after, fs)[1],
                     request, route, error_path, fs)

\* route_request for a CGI route (lines 172-193)
RouteCgi(request, route, after_route, error_path, fs) ==
    IF after_route = <<>> THEN ErrorResponse(404, error_path, "Not Found", fs)
    ELSE IF sanitize_path(route.root, after_route, fs) = None
    THEN ErrorResponse(403, error_path, "Forbidden", fs)
    ELSE run_cgi(sanitize_path(route.root, after_route, fs)[1], request.path, request, fs)

\* the route matched acted on whatever the method
RouteMatchedAnyMethod(request, config, route, error_path, fs) ==
    IF route.redirect # None
    THEN Out(set_header(HttpResponse_new(302, "Found"), "Location", route.redirect[1]), {})
    ELSE IF /\ Contains(route.path, <<"/", "upload">>)
            /\ eq_ignore_ascii_case(request.method, <<"POST">>)
    THEN IF Len(request.body) > config.client_body_size_limit
         THEN ErrorResponse(413, error_path, "Payload Too Large", fs)
         ELSE upload_file(request, config.client_body_size_limit, error_path, fs)
    ELSE IF /\ Contains(route.path, <<"/", "upload">>)
            /\ eq_ignore_ascii_case(request.method, <<"DELETE">>)
    THEN delete_file(request, fs)
    ELSE IF route.cgi # None
    THEN RouteCgi(request, route,
                  trim_start_matches(Drop(request.path, Len(route.path)), "/"),
                  error_path, fs)
    ELSE RouteStatic(request, route,
                     trim_start_matches(IF route.path = <<"/">> THEN request.path
                                        ELSE Drop(request.path, Len(route.path)), "/"),
                     error_path, fs)

\* route_request for the route matched (lines 145-264)
RouteMatched(request, config, route, error_path, fs) ==
    IF ~\E i \in 1..Len(route.methods) :
            eq_ignore_ascii_case(route.methods[i], request.method)
    THEN ErrorResponse(405, error_path, "Method Not Allowed", fs)
    ELSE IF route.redirect # None
    THEN Out(set_header(HttpResponse_new(302, "Found"), "Location", route.redirect[1]), {})
    ELSE IF /\ Contains(route.path, <<"/", "upload">>)
            /\ eq_ignore_ascii_case(request.method, <<"POST">>)
    THEN IF Len(request.body) > config.client_body_size_limit
         THEN ErrorResponse(413, error_path, "Payload Too Large", fs)
         ELSE upload_file(request, config.client_body_size_limit, error_path, fs)
    ELSE IF /\ Contains(route.path, <<"/", "upload">>)
            /\ eq_ignore_ascii_case(request.method, <<"DELETE">>)
    THEN delete_file(request, fs)
    ELSE IF route.cgi # None
    THEN RouteCgi(request, route,
                  trim_start_matches(Drop(request.path, Len(route.path)), "/"),
                  error_path, fs)
    ELSE RouteStatic(request, route,
                     trim_start_matches(IF route.path = <<"/">> THEN request.path
                                        ELSE Drop(request.path, Len(route.path)), "/"),
                     error_path, fs)

\* route_request with the routes and the error pages chosen (lines 142-266)
RouteIn(request, config, routes, error_path, fs) ==
    IF find_route(request, routes) = None
    THEN ErrorResponse(404, error_path, "Not Found", fs)
    ELSE RouteMatched(request, config, find_route(request, routes)[1], error_path, fs)

\* route_request with a body of exactly the limit refused
route_request_limit_refused(request, config, fs) ==
    IF request.version # <<"HTTP/1.1">>
    THEN ErrorResponse(400, config.error_path, "Bad Request", fs)
    ELSE IF ~is_path_safe(request.path)
    THEN ErrorResponse(403, config.error_path, "Forbidden", fs)
    ELSE IF Len(request.body) >= config.client_body_size_limit
    THEN ErrorResponse(413, config.error_path, "Payload Too Large", fs)
    ELSE IF config.vhosts # <<>> /\ find_vhost(request, config.vhosts) # None
    THEN RouteIn(request, config, find_vhost(request, config.vhosts)[1].routes,
                 find_vhost(request, config.vhosts)[1].error_path, fs)
    ELSE RouteIn(request, config, config.routes, config.error_path, fs)

\* route_request, given the file system: its response and file operations
route_request(request, config, fs) ==
    IF request.version # <<"HTTP/1.1">>
    THEN ErrorResponse(400, config.error_path, "Bad Request", fs)
    ELSE IF ~is_path_safe(request.path)
    THEN ErrorResponse(403, config.error_path, "Forbidden", fs)
    ELSE IF Len(request.body) > config.client_body_size_limit
    THEN ErrorResponse(413, config.error_path, "Payload Too Large", fs)
    ELSE IF config.vhosts # <<>> /\ find_vhost(request, config.vhosts) # None
    THEN RouteIn(request, config, find_vhost(request, config.vhosts)[1].routes,
                 find_vhost(request, config.vhosts)[1].error_path, fs)
    ELSE RouteIn(request, config, config.routes, config.error_path, fs)

(***************************************************************************)
(* State                                                                   *)
(***************************************************************************)
VARIABLES
    clients,   \* the connection map of run: fd -> ClientConnection
    interest,  \* the poller: fd -> the Interest registered for it
    socks,     \* the kernel: fd -> the socket behind an accepted descriptor
    backlog,   \* connections completed by clients and not yet accepted
    phase,     \* "wait": in poller.poll; "events": in the for loop over events
    batch,     \* the events of this iteration not processed yet
    hist,      \* history, per connection (see Hist_new)
    last,      \* history: what the step just taken did, when it was a client
               \* event or a cleanup pass (see NoEvent)
    cgi_run    \* the run of run_cgi the loop is in, and its child (see Cgi_new)

vars == <<clients, interest, socks, backlog, phase, batch, hist, last, cgi_run>>

\* the descriptor of the listening socket
ListenerFd == 0

Fds == 1..MaxFds

\* History of a connection: requests the client began; offsets, from the next
\* unread byte, at which the requests not yet read completely end; requests
\* read completely; responses queued; responses written completely; the
\* Connection header of the request whose response was queued last.
Hist_new ==
    [begun |-> 0, ends |-> <<>>, rcvd |-> 0, queued |-> 0, written |-> 0,
     conn_header |-> None]

\* What the step just taken did.  step is "event" after the loop body ran for
\* a client event, "cleanup" after a cleanup pass and "none" after any other
\* step, for which NoEvent is the record.  For an event: the connection's
\* state, requests_handled and bytes_written before it; whether it read and
\* how many bytes; how often it parsed; whether it queued a response; whether
\* it wrote, how many bytes, from and to which position of a write_buffer of
\* which length, and whether the write failed or finished the response;
\* whether it reset the connection; whether poller.modify failed; the event
\* itself; the Connection header of the response in write_buffer when the
\* write began.  For a cleanup pass: the descriptors it removed, those that were
\* idle for more than IDLE_TIMEOUT_SECS seconds when it ran and those that
\* were Closing when it ran.  step is "abort" after an event in which
\* route_request panicked and "stop" after run returned an error, with the
\* connections that ended with the process.  After an event of the listener:
\* the descriptors of the connections it inserted.
NoEvent ==
    [step |-> "none", fd |-> ListenerFd, state_before |-> "Closing", rh_before |-> 0,
     read_io |-> FALSE, read_n |-> 0, parses |-> 0, queued |-> FALSE,
     write_io |-> FALSE, write_n |-> 0, write_err |-> FALSE,
     bw_before |-> 0, bw_after |-> 0, wb_len |-> 0,
     write_done |-> FALSE, did_reset |-> FALSE, modify_failed |-> FALSE,
     bw_start |-> 0, removed |-> {}, expired |-> {},
     event |-> SocketEvent(ListenerFd, {}), closing |-> {}, lost |-> {},
     accepted |-> {}, resp_connection |-> None]

\* the requests a client sends
ReqKeep == <<"GET", " ", "/", " ", "HTTP/1.1", "\r", "\n", "\r", "\n">>

ReqClose ==
    <<"GET", " ", "/", " ", "HTTP/1.1", "\r", "\n",
      "Connection", ":", " ", "Close", "\r", "\n", "\r", "\n">>

ReqBody ==
    <<"POST", " ", "/", " ", "HTTP/1.0", "\r", "\n",
      "Content-Length", ":", "1", "\r", "\n", "\r", "\n", "x">>

Requests == {ReqKeep, ReqClose, ReqBody}

\* the requests of the client of the long-lived run
RequestsLong == {ReqKeep, ReqClose}

\* a request line of two tokens
ReqTwoTokens == <<"GET", " ", "/", "\r", "\n", "\r", "\n">>

\* a Content-Length that is no unsigned number
ReqBadLength ==
    <<"POST", " ", "/", " ", "HTTP/1.1", "\r", "\n",
      "Content-Length", ":", " ", "-", "1", "\r", "\n", "\r", "\n">>

\* the requests of a client that also sends malformed header sections
RequestsMalformed == {ReqKeep, ReqTwoTokens, ReqBadLength}

\* a pipe from the child: the bytes in it, whether the child's end is open,
\* and whether the epoll instance of run_cgi holds an event for it (the
\* descriptors are registered edge-triggered: a write or a close by the child
\* raises one event, which epoll_wait reports once)
Pipe_new == [data |-> <<>>, open |-> FALSE, edge |-> FALSE]

\* The run of run_cgi.  pc is "idle" outside run_cgi, "write" in
\* stdin.write_all, "loop" at the head of the read loop, "wait" in
\* child.wait() and "done" after the return.  body: the bytes of the request
\* body not written yet; stdin: the bytes in the pipe to the child;
\* stdin_open: the server holds its end of that pipe; prog: the operations the
\* child has still to do; child: "none", "running", "exited" or "killed";
\* elapsed: seconds since the child was spawned while pc is "write", and
\* since `start` was taken afterwards; polled: the loop ran since the last
\* tick of the clock; waited: child.wait() or child.try_wait() has collected
\* the exit status of the child.
Cgi_new ==
    [pc |-> "idle", body |-> 0, stdin |-> 0, stdin_open |-> FALSE,
     prog |-> <<>>, child |-> "none", out |-> Pipe_new, err |-> Pipe_new,
     stdout_buf |-> <<>>, stderr_buf |-> <<>>,
     stdout_done |-> FALSE, stderr_done |-> FALSE,
     elapsed |-> 0, polled |-> FALSE, response |-> None, waited |-> FALSE]

\* a header section that never ends, a request that announces a body of 99
\* bytes, and filler
ReqNoEnd ==
    <<"GET", " ", "/", " ", "HTTP/1.1", "\r", "\n", "X", ":", " ", "x", "\r", "\n">>

ReqBigBody ==
    <<"POST", " ", "/", " ", "HTTP/1.1", "\r", "\n",
      "Content-Length", ":", " ", "9", "9", "\r", "\n", "\r", "\n">>

Filler == <<"x", "x", "x", "x", "x", "x", "x", "x">>

\* what a client sends that never completes a request
RequestsFlood == {ReqNoEnd, ReqBigBody, Filler}

Init ==
    /\ clients = EmptyMap
    /\ interest = EmptyMap
    /\ socks = EmptyMap
    /\ backlog = 0
    /\ phase = "wait"
    /\ batch = {}
    /\ hist = EmptyMap
    /\ last = NoEvent
    /\ cgi_run = Cgi_new

(***************************************************************************)
(* The clients and the clock                                               *)
(***************************************************************************)
\* a client completes a TCP connection to the listener, whose accept queue
\* holds fewer than `limit` connections
ClientConnectUpTo(limit) ==
    /\ phase = "wait"
    /\ backlog < limit
    /\ backlog' = backlog + 1
    /\ last' = NoEvent
    /\ UNCHANGED <<clients, interest, socks, phase, batch, hist, cgi_run>>

ClientConnect == ClientConnectUpTo(MaxBacklog)

\* a client starts to send request r, all bytes of its last one having
\* arrived; it sends at most `limit` requests on the connection and has at
\* most `ahead` of them unanswered
ClientRequest(fd, r, limit, ahead) ==
    /\ phase = "wait"
    /\ fd \in DOMAIN socks
    /\ socks[fd].peer = "open"
    /\ socks[fd].unsent = <<>>
    /\ hist[fd].begun < limit
    /\ hist[fd].begun - hist[fd].written < ahead
    /\ socks' = [socks EXCEPT ![fd].unsent = r, ![fd].segs = 0]
    /\ hist' = [hist EXCEPT ![fd].begun = @ + 1,
                            ![fd].ends = Append(@, Len(socks[fd].inbound) + Len(r))]
    /\ last' = NoEvent
    /\ UNCHANGED <<clients, interest, backlog, phase, batch, cgi_run>>

\* the next bytes of the client's request, one or more, arrive at the
\* server's socket; a request arrives in at most `pieces` pieces
ClientDeliver(fd, pieces) ==
    /\ phase = "wait"
    /\ fd \in DOMAIN socks
    /\ socks[fd].peer = "open"
    /\ \E k \in 1..Len(socks[fd].unsent) :
          /\ k = Len(socks[fd].unsent) \/ socks[fd].segs + 1 < pieces
          /\ socks' = [socks EXCEPT ![fd].inbound = @ \o Take(socks[fd].unsent, k),
                                    ![fd].unsent = Drop(@, k),
                                    ![fd].segs = @ + 1]
    /\ last' = NoEvent
    /\ UNCHANGED <<clients, interest, backlog, phase, batch, hist, cgi_run>>

\* the client closes its side (how = "fin") or resets the connection ("rst");
\* bytes not yet arrived are lost
ClientClose(fd, how) ==
    /\ phase = "wait"
    /\ fd \in DOMAIN socks
    /\ socks[fd].peer = "open"
    /\ socks' = [socks EXCEPT ![fd].peer = how, ![fd].unsent = <<>>]
    /\ last' = NoEvent
    /\ UNCHANGED <<clients, interest, backlog, phase, batch, hist, cgi_run>>

\* d seconds pass while the loop waits in poll
Tick(d) ==
    /\ phase = "wait"
    /\ clients' = [fd \in DOMAIN clients |->
                      [clients[fd] EXCEPT
                          !.last_activity = Older(@, d),
                          !.request_started_at =
                              IF @ = None THEN None ELSE Some(Older(@[1], d))]]
    /\ clients' # clients
    /\ last' = NoEvent
    /\ UNCHANGED <<interest, socks, backlog, phase, batch, hist, cgi_run>>

(***************************************************************************)
(* network/server.rs: the event loop                                       *)
(***************************************************************************)
\* poller.poll(TIMEOUT_CHECK_MS) returns: one event for every registered
\* descriptor that is ready for something its mask asks for.  W holds the
\* sockets whose send buffer has room.
Poll ==
    /\ phase = "wait"
    /\ \E W \in SUBSET {fd \in DOMAIN interest : interest[fd].write} :
          batch' =
              {SocketEvent(fd, build_event_mask(interest[fd])
                                  \cap ReadyFlags(socks[fd], fd \in W)) :
                  fd \in {f \in DOMAIN interest :
                            build_event_mask(interest[f])
                                \cap ReadyFlags(socks[f], f \in W) # {}}}
              \cup (IF backlog > 0 THEN {SocketEvent(ListenerFd, {"EPOLLIN"})} ELSE {})
    /\ phase' = "events"
    /\ last' = NoEvent
    /\ UNCHANGED <<clients, interest, socks, backlog, hist, cgi_run>>

\* What may happen to a socket that accept returned: it is set up ("ok"),
\* set_nonblocking fails, or poller.register fails.
SetupOutcomes == {"ok", "nonblocking_failed", "register_failed"}

\* The loop of accept_connections over the pending connections, os[i] being
\* what happens to the i-th socket accepted.  The kernel gives each socket
\* the lowest free descriptor; accept fails when none is free or, with
\* WouldBlock, when no connection is pending, and the loop ends.  A socket
\* whose registration fails is dropped, which frees its descriptor, and the
\* loop goes on; one whose set_nonblocking fails is dropped and the error is
\* returned.  new: the descriptors of the connections inserted; taken: the
\* connections accepted; failed: whether an error is returned.
RECURSIVE AcceptLoop(_, _, _, _)
AcceptLoop(free, os, i, new) ==
    IF i > Len(os) \/ free = {}
    THEN [new |-> new, taken |-> i - 1, failed |-> FALSE]
    ELSE CASE os[i] = "ok" ->
                 AcceptLoop(free \ {Minimum(free)}, os, i + 1, new \cup {Minimum(free)})
           [] os[i] = "register_failed" ->
                 AcceptLoop(free, os, i + 1, new)
           [] os[i] = "nonblocking_failed" ->
                 [new |-> new, taken |-> i, failed |-> TRUE]

\* the state after accept_connections returned Ok: the loop goes on
AcceptReturns(r) ==
    /\ ~r.failed
    /\ clients' = [fd \in (DOMAIN clients) \cup r.new |->
                     IF fd \in r.new THEN ClientConnection_new ELSE clients[fd]]
    /\ interest' = [fd \in (DOMAIN interest) \cup r.new |->
                     IF fd \in r.new THEN Interest_readable ELSE interest[fd]]
    /\ socks' = [fd \in (DOMAIN socks) \cup r.new |->
                     IF fd \in r.new THEN Socket_new ELSE socks[fd]]
    /\ hist' = [fd \in (DOMAIN hist) \cup r.new |->
                     IF fd \in r.new THEN Hist_new ELSE hist[fd]]
    /\ backlog' = backlog - r.taken
    /\ last' = [NoEvent EXCEPT !.accepted = r.new]
    /\ UNCHANGED <<phase, cgi_run>>

\* the state after accept_connections returned an error: run returns it
\* (server.rs:84) and the process ends, with every connection it held
AcceptFails(r) ==
    /\ r.failed
    /\ phase' = "stopped"
    /\ clients' = EmptyMap
    /\ interest' = EmptyMap
    /\ socks' = EmptyMap
    /\ hist' = EmptyMap
    /\ backlog' = backlog - r.taken
    /\ last' = [NoEvent EXCEPT !.step = "stop", !.lost = (DOMAIN clients) \cup r.new]
    /\ UNCHANGED cgi_run

\* An event of the listener: accept_connections accepts until accept fails,
\* registers each socket readable and inserts its connection; the setup of
\* each socket ends in one of `outcomes`.
AcceptEventWith(pool, outcomes) ==
    /\ phase = "events"
    /\ \E event \in batch :
          /\ event.fd = ListenerFd
          /\ batch' = batch \ {event}
    /\ \E os \in [1..backlog -> outcomes] :
          \/ AcceptReturns(AcceptLoop(pool \ DOMAIN socks, os, 1, {}))
          \/ AcceptFails(AcceptLoop(pool \ DOMAIN socks, os, 1, {}))

\* An event of the listener in a run in which the setup of no socket fails
AcceptEvent(pool) == AcceptEventWith(pool, {"ok"})

\* the history of a connection after an event with result res; request is
\* the request the event parsed, if any
HistAfter(h, request, res) ==
    [h EXCEPT
        !.ends = LET left == SelectSeq(@, LAMBDA e : e > res.read_n)
                 IN  [i \in 1..Len(left) |-> left[i] - res.read_n],
        !.rcvd = @ + Cardinality({i \in 1..Len(h.ends) : h.ends[i] <= res.read_n}),
        !.queued = @ + (IF res.queued THEN 1 ELSE 0),
        !.written = @ + (IF res.write_done /\ res.write_io THEN 1 ELSE 0),
        !.conn_header = IF res.queued /\ request # None
                        THEN MapGet(request[1].headers, <<"Connection">>)
                        ELSE @]

NoRead == [kind |-> "WouldBlock", data |-> <<>>]

NoWrite == [kind |-> "WouldBlock", n |-> 0]

\* the answers the socket may give to the read of an event, if it reads
ReadAnswers(sock, event) ==
    IF event.can_read /\ ~(event.has_error \/ event.hung_up)
    THEN StreamRead(sock) ELSE {NoRead}

\* the request the event gets from the buffer after its read, if any
ParsedRequest(client, event, rd) ==
    IF event.can_read /\ ~(event.has_error \/ event.hung_up)
    THEN parse(handle_read(client, rd).conn.read_buffer)
    ELSE None

\* the responses route_request may return for what the event parsed
RoutedFor(request) ==
    IF request = None THEN {bad_request} ELSE RouteOutcomes(request[1])

\* the answers the socket may give to the write of an event, if it writes
WriteAnswers(sock, event, rs) ==
    IF event.can_write /\ ~rs.close
    THEN StreamWrite(sock, Len(rs.conn.write_buffer) - rs.conn.bytes_written)
    ELSE {NoWrite}

\* Faulty variant of ClientEventDone: a connection that the event leaves
\* Closing is removed and its socket closed at once, in the middle of the
\* batch.  C38_DescriptorNamesOneConnection fails with it.
ClientEventDone_dropping(fd, request, res) ==
    /\ clients' = IF res.conn.state = "Closing"
                  THEN [g \in (DOMAIN clients) \ {fd} |-> clients[g]]
                  ELSE [clients EXCEPT ![fd] = res.conn]
    /\ interest' = IF res.conn.state = "Closing"
                   THEN [g \in (DOMAIN interest) \ {fd} |-> interest[g]]
                   ELSE IF res.modified THEN [interest EXCEPT ![fd] = res.interest]
                   ELSE interest
    /\ socks' = IF res.conn.state = "Closing"
                THEN [g \in (DOMAIN socks) \ {fd} |-> socks[g]]
                ELSE [socks EXCEPT ![fd].inbound = Drop(@, res.read_n)]
    /\ hist' = IF res.conn.state = "Closing"
               THEN [g \in (DOMAIN hist) \ {fd} |-> hist[g]]
               ELSE [hist EXCEPT ![fd] = HistAfter(@, request, res)]
    /\ last' = [NoEvent EXCEPT !.step = "event", !.fd = fd]

\* the state after the loop body ran for an event of fd with result res
ClientEventDone(fd, request, res) ==
    /\ clients' = [clients EXCEPT ![fd] = res.conn]
    /\ interest' = IF res.modified
                   THEN [interest EXCEPT ![fd] = res.interest]
                   ELSE interest
    /\ socks' = [socks EXCEPT ![fd].inbound = Drop(@, res.read_n)]
    /\ hist' = [hist EXCEPT ![fd] = HistAfter(@, request, res)]
    /\ last' = [step          |-> "event",
                fd            |-> fd,
                state_before  |-> clients[fd].state,
                rh_before     |-> clients[fd].requests_handled,
                read_io       |-> res.read_io,
                read_n        |-> res.read_n,
                parses        |-> res.parses,
                queued        |-> res.queued,
                write_io      |-> res.write_io,
                write_n       |-> res.write_n,
                write_err     |-> res.write_err,
                bw_before     |-> res.bw_before,
                bw_after      |-> res.bw_after,
                wb_len        |-> res.wb_len,
                write_done    |-> res.write_done,
                did_reset     |-> res.did_reset,
                modify_failed |-> res.modify_failed,
                bw_start      |-> clients[fd].bytes_written,
                removed       |-> {},
                expired       |-> {},
                event         |-> res.event,
                closing       |-> {},
                lost          |-> {},
                accepted      |-> {},
                resp_connection |-> res.resp_connection]

\* the writable half of an event of fd, the readable half having given rs;
\* poller.modify may fail where the loop body calls it
ClientEventWrite(fd, event, request, rs) ==
    \E wr \in WriteAnswers(socks[fd], event, rs), modify_ok \in BOOLEAN :
        /\ modify_ok \/ WriteStep(rs, event, wr, modify_ok).modify_failed
        /\ ClientEventDone(fd, request, WriteStep(rs, event, wr, modify_ok))

\* the readable half of an event of fd, the socket having answered rd
ClientEventRead(fd, event, rd, request) ==
    \E routed \in RoutedFor(request) :
        ClientEventWrite(fd, event, request, ReadStep(clients[fd], event, rd, routed))

\* An event of a client socket: the loop body of run for it.  The socket's
\* answers, the routed response and the result of poller.modify are inputs;
\* each is drawn only where the loop body asks for it.
ClientEvent(fd) ==
    /\ phase = "events"
    /\ fd \in DOMAIN clients
    /\ \E event \in batch :
        /\ event.fd = fd
        /\ batch' = batch \ {event}
        /\ \E rd \in ReadAnswers(socks[fd], event) :
              ClientEventRead(fd, event, rd, ParsedRequest(clients[fd], event, rd))
    /\ UNCHANGED <<backlog, phase, cgi_run>>

\* cleanup_connections, at the end of the iteration: every connection that
\* is Closing or timed out is removed from the map, unregistered from the
\* poller, and its socket shut down and dropped.
Cleanup ==
    /\ phase = "events"
    /\ batch = {}
    /\ LET gone == fds_to_remove(clients)
           keep == (DOMAIN clients) \ gone
       IN  /\ clients' = [fd \in keep |-> clients[fd]]
           /\ interest' = [fd \in (DOMAIN interest) \ gone |-> interest[fd]]
           /\ socks' = [fd \in (DOMAIN socks) \ gone |-> socks[fd]]
           /\ hist' = [fd \in (DOMAIN hist) \ gone |-> hist[fd]]
           /\ last' = [NoEvent EXCEPT
                          !.step = "cleanup",
                          !.removed = gone,
                          !.expired = {fd \in DOMAIN clients :
                                          clients[fd].last_activity > IDLE_TIMEOUT_SECS},
                          !.closing = {fd \in DOMAIN clients :
                                          clients[fd].state = "Closing"}]
    /\ phase' = "wait"
    /\ UNCHANGED <<backlog, batch, cgi_run>>

(***************************************************************************)
(* handlers/cgi.rs: a run of run_cgi and its child.  The event loop is     *)
(* inside run_cgi for the whole run.  The child runs a program: a sequence *)
(* of operations, after which it exits.  "read" reads stdin to its end,    *)
(* "out" and "err" write one byte to stdout and stderr, "close_out" and    *)
(* "close_err" close them, "sleep" takes a second, "hang" never ends.      *)
(***************************************************************************)
ChildOps == {"read", "out", "err", "close_out", "close_err", "sleep", "hang"}

\* Command::spawn with three pipes, and the registration of stdout and stderr
SpawnChild(body_len, prog) ==
    [Cgi_new EXCEPT !.pc = IF body_len = 0 THEN "loop" ELSE "write",
                    !.body = body_len, !.stdin_open = body_len # 0,
                    !.prog = prog, !.child = "running",
                    !.out = [Pipe_new EXCEPT !.open = TRUE],
                    !.err = [Pipe_new EXCEPT !.open = TRUE]]

\* the pipe to the child takes a byte, or the child is gone (EPIPE)
StdinWritable(c) == c.child # "running" \/ c.stdin < PipeCapacity

\* drop(stdin_handle), and start = Instant::now()
StartLoop(c) ==
    [c EXCEPT !.pc = "loop", !.stdin_open = FALSE, !.elapsed = 0, !.polled = FALSE]

\* stdin.write_all: a blocking write of what the pipe takes; the error of a
\* write to a child that is gone is dropped
write_all(c) ==
    IF c.child # "running" THEN StartLoop(c)
    ELSE IF c.body <= PipeCapacity - c.stdin
    THEN StartLoop([c EXCEPT !.body = 0, !.stdin = c.stdin + c.body])
    ELSE [c EXCEPT !.body = c.body - (PipeCapacity - c.stdin), !.stdin = PipeCapacity]

\* read_nonblocking for an event of the pipe: <<pipe, buffer, done>> after it
read_nonblocking(pipe, buf, done) ==
    IF ~pipe.edge \/ done THEN <<[pipe EXCEPT !.edge = FALSE], buf, done>>
    ELSE IF pipe.data # <<>>
    THEN <<[pipe EXCEPT !.edge = FALSE, !.data = Drop(pipe.data, TEMP_SIZE)],
           buf \o Take(pipe.data, Min(Len(pipe.data), TEMP_SIZE)), done>>
    ELSE <<[pipe EXCEPT !.edge = FALSE], buf, ~pipe.open>>

\* the events of one epoll_wait processed
ProcessEvents(c) ==
    [c EXCEPT !.out = read_nonblocking(c.out, c.stdout_buf, c.stdout_done)[1],
              !.stdout_buf = read_nonblocking(c.out, c.stdout_buf, c.stdout_done)[2],
              !.stdout_done = read_nonblocking(c.out, c.stdout_buf, c.stdout_done)[3],
              !.err = read_nonblocking(c.err, c.stderr_buf, c.stderr_done)[1],
              !.stderr_buf = read_nonblocking(c.err, c.stderr_buf, c.stderr_done)[2],
              !.stderr_done = read_nonblocking(c.err, c.stderr_buf, c.stderr_done)[3],
              !.polled = TRUE]

\* drain_remaining on both pipes, and the break
drain_remaining(c) ==
    [c EXCEPT !.out.data = <<>>, !.stdout_buf = c.stdout_buf \o c.out.data,
              !.err.data = <<>>, !.stderr_buf = c.stderr_buf \o c.err.data,
              !.pc = "wait"]

gateway_timeout ==
    set_body(HttpResponse_new(504, "Gateway Timeout"), <<"CGI script timed out">>)

\* one pass of `while !stdout_done || !stderr_done`: the loop ends when both
\* streams are done; else the deadline is checked; else the events of one
\* epoll_wait are processed and the child is asked whether it exited
loop_pass(c) ==
    IF c.stdout_done /\ c.stderr_done THEN [c EXCEPT !.pc = "wait"]
    ELSE IF c.elapsed > CGI_TIMEOUT_SECS
    THEN [c EXCEPT !.pc = "done", !.response = Some(gateway_timeout),
                   !.child = IF c.child = "running" THEN "killed" ELSE c.child]
    ELSE IF c.child = "exited"
    THEN [drain_remaining(ProcessEvents(c)) EXCEPT !.waited = TRUE]
    ELSE ProcessEvents(c)

\* the child cannot go on by itself
ChildBlocked(c) ==
    /\ c.prog # <<>>
    /\ \/ Head(c.prog) \in {"sleep", "hang"}
       \/ Head(c.prog) = "read" /\ c.stdin = 0 /\ c.stdin_open
       \/ Head(c.prog) = "out" /\ c.out.open /\ Len(c.out.data) >= PipeCapacity
       \/ Head(c.prog) = "err" /\ c.err.open /\ Len(c.err.data) >= PipeCapacity

\* a write of one byte by the child; a write to a closed stream fails
ChildWrite(pipe, byte) ==
    IF pipe.open THEN [pipe EXCEPT !.data = Append(pipe.data, byte), !.edge = TRUE]
    ELSE pipe

ChildClose(pipe) == [pipe EXCEPT !.open = FALSE, !.edge = pipe.open]

\* the next operation of the child, which exits at the end of its program
child_op(c) ==
    IF c.prog = <<>>
    THEN [c EXCEPT !.child = "exited", !.stdin = 0,
                   !.out = ChildClose(c.out), !.err = ChildClose(c.err)]
    ELSE IF Head(c.prog) = "read"
    THEN IF c.stdin > 0 THEN [c EXCEPT !.stdin = 0] ELSE [c EXCEPT !.prog = Tail(c.prog)]
    ELSE IF Head(c.prog) = "out"
    THEN [c EXCEPT !.prog = Tail(c.prog), !.out = ChildWrite(c.out, "o")]
    ELSE IF Head(c.prog) = "err"
    THEN [c EXCEPT !.prog = Tail(c.prog), !.err = ChildWrite(c.err, "e")]
    ELSE IF Head(c.prog) = "close_out"
    THEN [c EXCEPT !.prog = Tail(c.prog), !.out = ChildClose(c.out)]
    ELSE [c EXCEPT !.prog = Tail(c.prog), !.err = ChildClose(c.err)]

NotInCgi == UNCHANGED <<clients, interest, socks, backlog, phase, batch, hist, last>>

\* run_cgi is entered for a request with a body of body_len bytes and a
\* script that behaves as prog
CgiSpawn(body_len, prog) ==
    /\ cgi_run.pc = "idle"
    /\ cgi_run' = SpawnChild(body_len, prog)
    /\ NotInCgi

\* run_cgi when epoll_create1 fails after the spawn: child.kill() and the
\* return of a 500
epoll_create_failed(c) ==
    [c EXCEPT !.pc = "done", !.child = "killed",
              !.response = Some(set_body(HttpResponse_new(500, "Internal Server Error"),
                                         <<"CGI Error: epoll_create failed">>))]

\* run_cgi is entered, the script is spawned and epoll_create1 fails
CgiPollerFails(prog) ==
    /\ cgi_run.pc = "idle"
    /\ cgi_run' = epoll_create_failed(SpawnChild(0, prog))
    /\ NotInCgi

\* the blocking write goes on when the pipe takes a byte
CgiWriteStdin ==
    /\ cgi_run.pc = "write"
    /\ StdinWritable(cgi_run)
    /\ cgi_run' = write_all(cgi_run)
    /\ NotInCgi

CgiLoop ==
    /\ cgi_run.pc = "loop"
    /\ cgi_run' = loop_pass(cgi_run)
    /\ NotInCgi

\* child.wait() returns when the child is gone; the response is built
CgiWait ==
    /\ cgi_run.pc = "wait"
    /\ cgi_run.child # "running"
    /\ cgi_run' = [cgi_run EXCEPT !.pc = "done", !.waited = TRUE,
                          !.response = Some(cgi_response(cgi_run.stdout_buf, cgi_run.stderr_buf))]
    /\ NotInCgi

ChildStep ==
    /\ cgi_run.child = "running"
    /\ ~ChildBlocked(cgi_run)
    /\ cgi_run' = child_op(cgi_run)
    /\ NotInCgi

\* A second passes.  The loop waits at most 50 ms in epoll_wait, so it makes
\* a pass in every second; a write that can go on, a wait for a child that
\* is gone, and an operation of the child that can go on take no time.
CgiTick ==
    /\ cgi_run.pc \in {"write", "loop", "wait"}
    /\ cgi_run.child = "running" => ChildBlocked(cgi_run)
    /\ cgi_run.pc = "write" => ~StdinWritable(cgi_run)
    /\ cgi_run.pc = "loop" => cgi_run.polled
    /\ cgi_run.pc = "wait" => cgi_run.child = "running"
    /\ cgi_run.elapsed < CgiElapsedCap
    /\ cgi_run' = [cgi_run EXCEPT !.elapsed = cgi_run.elapsed + 1, !.polled = FALSE,
                          !.prog = IF cgi_run.prog # <<>> /\ Head(cgi_run.prog) = "sleep"
                                   THEN Tail(cgi_run.prog) ELSE cgi_run.prog]
    /\ NotInCgi

(***************************************************************************)
(* Requests served one by one: parse and route_request applied to the      *)
(* bytes of a request under a configuration and a file system.  `last`     *)
(* holds the call: the bytes, the request parse returned, the              *)
(* configuration, the file system, and what route_request returned.        *)
(***************************************************************************)
\* the decimal digits of n
RECURSIVE Digits(_)
Digits(n) ==
    IF n < 10 THEN <<ToString(n)>> ELSE Append(Digits(n \div 10), ToString(n % 10))

HeaderLine(key, value) == <<key, ":", " ">> \o value \o <<"\r", "\n">>

\* the bytes of a request with the given header lines; a body is announced
\* by its Content-Length
RequestBytes(method, target, version, header_lines, body) ==
    <<method, " ">> \o target \o <<" ", version, "\r", "\n">> \o header_lines
        \o (IF body = <<>> THEN <<>>
            ELSE HeaderLine("Content-Length", Digits(Len(body))))
        \o <<"\r", "\n">> \o body

CallRecord(buffer, request, config, fs) ==
    [step |-> "call", buffer |-> buffer, request |-> request,
     config |-> config, fs |-> fs,
     out |-> IF request = None THEN None
             ELSE Some(route_request(request[1], config, fs))]

\* the server is given the bytes of buffer and, if they are a complete
\* request, routes it; a behaviour serves one request
Call(buffer, config, fs) ==
    /\ last.step = "none"
    /\ last' = CallRecord(buffer, parse(buffer), config, fs)
    /\ UNCHANGED <<clients, interest, socks, backlog, phase, batch, hist, cgi_run>>

RouteConfig(path, methods, root, default_file, autoindex, cgi, redirect) ==
    [path |-> path, methods |-> methods, root |-> root,
     default_file |-> default_file, autoindex |-> autoindex,
     cgi |-> cgi, redirect |-> redirect]

ServerConfig(client_body_size_limit, routes, error_path, vhosts) ==
    [client_body_size_limit |-> client_body_size_limit, routes |-> routes,
     error_path |-> error_path, vhosts |-> vhosts]

File(content) == [kind |-> "file", content |-> content]

Dir == [kind |-> "dir", content |-> <<>>]

\* the sequences of at most n elements of S
RECURSIVE SeqsUpTo(_, _)
SeqsUpTo(S, n) ==
    IF n = 0 THEN {<<>>}
    ELSE SeqsUpTo(S, n - 1)
            \cup {Append(q, x) : q \in {r \in SeqsUpTo(S, n - 1) : Len(r) = n - 1}, x \in S}

\* the concatenation of the sequences of a sequence
RECURSIVE Flatten(_)
Flatten(q) == IF q = <<>> THEN <<>> ELSE Head(q) \o Flatten(Tail(q))

\* Uploads.  The pieces of a multipart body with boundary B: the opening
\* delimiter line with a part header line, a CRLF, a byte of data, the
\* closing delimiter, and a bare delimiter.
UploadPieces ==
    { <<"-", "-", "B", "\r", "\n", "Content-Disposition", ":", " ", "form-data", ";",
        " ", "filename", "=", "\"", "f.txt", "\"", "\r", "\n">>,
      <<"\r", "\n">>,
      <<"D">>,
      <<"-", "-", "B", "-", "-">>,
      <<"-", "-", "B">> }

UploadBodies == {Flatten(q) : q \in SeqsUpTo(UploadPieces, MaxParts)}

UploadConfig ==
    ServerConfig(UploadLimit,
                 << RouteConfig(<<"/", "upload">>, << <<"POST">>, <<"DELETE">> >>,
                                <<"uploads">>, None, FALSE, None, None) >>,
                 <<"errors">>, <<>>)

UploadFs == [p \in {<< <<"uploads">> >>} |-> Dir]

CallUpload ==
    \E body \in UploadBodies :
        Call(RequestBytes("POST", <<"/", "upload">>, "HTTP/1.1",
                          HeaderLine("Content-Type",
                                     <<"multipart/form-data", ";", " ",
                                       "boundary", "=", "B">>),
                          body),
             UploadConfig, UploadFs)

\* Uploads of one well-formed part: the filename of the part, its data, and
\* what follows the delimiter after the data (the end of the closing
\* delimiter, or the header lines of a second part)
PartFilenames ==
    { <<"f.txt">>, <<"a", " ", "b">>, <<".", ".", "/", "x">>,
      <<"/", "etc", "/", "passwd">>, <<"a", "-", "b", "_", "x">>,
      <<>>, <<"/">>, <<".">>, <<".", ".">> }

PartData == SeqsUpTo({"D", "\r", "\n", "-"}, MaxPartData)

PartTails ==
    { <<"-", "-">>, <<"-", "-", "\r", "\n">>,
      <<"\r", "\n", "Content-Disposition", ":", " ", "form-data", ";", " ",
        "filename", "=", "\"", "g.txt", "\"", "\r", "\n", "\r", "\n", "E",
        "\r", "\n", "-", "-", "B", "-", "-">> }

\* the body: delimiter line, part headers, blank line, data, CRLF, delimiter
PartBody(name, data, tail) ==
    <<"-", "-", "B", "\r", "\n", "Content-Disposition", ":", " ", "form-data", ";",
      " ", "name", "=", "\"", "file", "\"", ";", " ", "filename", "=", "\"">>
        \o name \o <<"\"", "\r", "\n", "\r", "\n">> \o data
        \o <<"\r", "\n", "-", "-", "B">> \o tail

PartRequest(name, data, tail) ==
    RequestBytes("POST", <<"/", "upload">>, "HTTP/1.1",
                 HeaderLine("Content-Type",
                            <<"multipart/form-data", ";", " ", "boundary", "=", "B">>),
                 PartBody(name, data, tail))

\* the call with what the part was made of
PartRecord(name, data, call) ==
    [step |-> "part", name |-> name, data |-> data, request |-> call.request,
     out |-> call.out]

CallPart ==
    \E name \in PartFilenames, data \in PartData, tail \in PartTails :
        /\ last.step = "none"
        /\ last' = PartRecord(name, data,
                              CallRecord(PartRequest(name, data, tail),
                                         parse(PartRequest(name, data, tail)),
                                         UploadConfig, UploadFs))
        /\ UNCHANGED <<clients, interest, socks, backlog, phase, batch, hist, cgi_run>>

\* Deletions: delete_file applied to DELETE /upload/<rest>, <rest> being
\* components joined by "/", under three contents of the uploads directory
DeleteComponents == {<<"a">>, <<"b">>, <<".">>, <<".", ".">>}

RECURSIVE JoinPath(_)
JoinPath(components) ==
    IF components = <<>> THEN <<>>
    ELSE IF Len(components) = 1 THEN Head(components)
    ELSE Head(components) \o <<"/">> \o JoinPath(Tail(components))

DeleteFss ==
    { [p \in {<< <<"uploads">> >>} |-> Dir],
      [p \in {<< <<"uploads">> >>, << <<"uploads">>, <<"a">> >>,
              << <<"uploads">>, <<"b">> >>} |->
          IF Len(p) = 1 THEN Dir ELSE File(<<"x">>)],
      [p \in {<< <<"uploads">> >>, << <<"uploads">>, <<"a">> >>,
              << <<"uploads">>, <<"a">>, <<"b">> >>} |->
          IF Len(p) < 3 THEN Dir ELSE File(<<"x">>)] }

DeleteRequest(components) ==
    parse(RequestBytes("DELETE", <<"/", "upload", "/">> \o JoinPath(components),
                       "HTTP/1.1", <<>>, <<>>))[1]

CallDelete ==
    \E components \in SeqsUpTo(DeleteComponents, MaxDeleteComponents), fs \in DeleteFss :
        /\ last.step = "none"
        /\ last' = [step |-> "delete", components |-> components, fs |-> fs,
                    request |-> DeleteRequest(components),
                    out |-> Some(delete_file(DeleteRequest(components), fs))]
        /\ UNCHANGED <<clients, interest, socks, backlog, phase, batch, hist, cgi_run>>

\* Requests with a Content-Length: the header announces n bytes and tail
\* follows the header section.
LengthRequest(n, tail) ==
    RequestBytes("POST", <<"/">>, "HTTP/1.1",
                 HeaderLine("Content-Length", Digits(n)), <<>>) \o tail

LengthTails == SeqsUpTo({"x", "\r", "\n"}, MaxTail)

CallLength ==
    \E n \in 0..MaxLength, tail \in LengthTails :
        Call(LengthRequest(n, tail), UploadConfig, UploadFs)

\* Chunked requests.  A chunk is its payload; its size line is the length of
\* the payload in hexadecimal.
ChunkPayloads ==
    { <<"x">>, <<"\r">>, <<"x", "\n">>, <<"\r", "\n">>,
      <<"x", "x", "x", "x", "x", "x", "x", "x", "x", "x">> }

HexSize(n) == IF n = 10 THEN <<"A">> ELSE Digits(n)

\* the chunks on the wire, the zero-size chunk not included
RECURSIVE EncodeChunks(_)
EncodeChunks(chunks) ==
    IF chunks = <<>> THEN <<>>
    ELSE HexSize(Len(Head(chunks))) \o <<"\r", "\n">> \o Head(chunks) \o <<"\r", "\n">>
            \o EncodeChunks(Tail(chunks))

\* the chunked body on the wire
ChunkedBody(chunks) == EncodeChunks(chunks) \o <<"0", "\r", "\n", "\r", "\n">>

TransferEncodings ==
    { <<"chunked">>, <<"Chunked">>, <<"gzip", ",", " ", "CHUNKED">> }

\* a request with Transfer-Encoding te of which the first k bytes of the
\* chunked body have arrived
ChunkedRequest(te, chunks, k) ==
    RequestBytes("POST", <<"/">>, "HTTP/1.1",
                 HeaderLine("Transfer-Encoding", te), <<>>)
        \o Take(ChunkedBody(chunks), k)

CallChunked ==
    \E te \in TransferEncodings, chunks \in SeqsUpTo(ChunkPayloads, MaxChunks) :
        \E k \in 0..Len(ChunkedBody(chunks)) :
            Call(ChunkedRequest(te, chunks, k), UploadConfig, UploadFs)

\* The gates.  A request path is "/" and at most MaxPathPieces of these
\* pieces behind it.
PathPieces ==
    { <<"/">>, <<".">>, <<"a">>, <<"NUL">>, <<"%", "2", "e">>, <<"%", "2", "F">>,
      <<"%", "0", "0">>, <<"%", "g", "g">> }

GatePaths == {<<"/">> \o Flatten(q) : q \in SeqsUpTo(PathPieces, MaxPathPieces)}

VHost(name, error_path, routes) ==
    [name |-> name, error_path |-> error_path, routes |-> routes]

WwwRoute == RouteConfig(<<"/">>, << <<"GET">> >>, <<"www">>, None, TRUE, None, None)

GateConfigs ==
    { ServerConfig(GateLimit, <<>>, <<"errors">>, <<>>),
      ServerConfig(GateLimit, <<WwwRoute>>, <<"errors">>,
                   << VHost(<<"a">>, <<"verrors">>, <<WwwRoute>>) >>) }

\* a directory www with a file a; a page for 403 under the error paths
GateFs ==
    [p \in { << <<"www">> >>, << <<"www">>, <<"a">> >>,
             error_file(<<"errors">>, 403), error_file(<<"verrors">>, 403) }
        |-> IF p = << <<"www">> >> THEN Dir ELSE File(<<"content of">> \o p[Len(p)])]

CallGates ==
    \E path \in GatePaths, version \in {"HTTP/1.1", "HTTP/1.0"},
       body \in {<<>>, <<"x">>, <<"x", "x">>}, config \in GateConfigs :
        Call(RequestBytes("GET", path, version, HeaderLine("Host", <<"a">>), body),
             config, GateFs)

\* Route matching.  Route i of a configuration redirects to a target of
\* its own.
RedirectRoute(path, target) ==
    RouteConfig(path, << <<"GET">> >>, <<"www">>, None, FALSE, None, Some(target))

RoutePaths == { <<"/">>, <<"/", "a">>, <<"/", "a", "b">>, <<"/", "a", "/", "b">>, <<"/", "b">> }

RedirectRoutes(paths) ==
    [i \in 1..Len(paths) |-> RedirectRoute(paths[i], <<"/", "to", ToString(i)>>)]

CallRoutes ==
    \E paths \in SeqsUpTo(RoutePaths, MaxRoutes),
       tail \in SeqsUpTo({"/", "a", "b"}, MaxPathLen) :
        Call(RequestBytes("GET", <<"/">> \o tail, "HTTP/1.1", <<>>, <<>>),
             ServerConfig(GateLimit, RedirectRoutes(paths), <<"errors">>, <<>>),
             GateFs)

\* Virtual hosts.  The global routes redirect / and /a; virtual host i
\* redirects / when its name is a and /a when its name is b.
GlobalRoutes ==
    << RedirectRoute(<<"/">>, <<"/", "global">>),
       RedirectRoute(<<"/", "a">>, <<"/", "global", "/", "a">>) >>

VHosts(names) ==
    [i \in 1..Len(names) |->
        VHost(names[i], <<"verrors">>,
              << RedirectRoute(IF names[i] = <<"a">> THEN <<"/">> ELSE <<"/", "a">>,
                               <<"/", "vhost", ToString(i)>>) >>)]

HostHeaders ==
    { <<>>, HeaderLine("Host", <<"a">>), HeaderLine("Host", <<"a", ":", "80">>),
      HeaderLine("Host", <<"b">>), HeaderLine("Host", <<"b", ":", "80", ":", "1">>),
      HeaderLine("Host", <<"c">>), HeaderLine("Host", <<":", "80">>) }

CallVhosts ==
    \E names \in SeqsUpTo({<<"a">>, <<"b">>}, MaxVhosts), host \in HostHeaders,
       path \in {<<"/">>, <<"/", "a">>} :
        Call(RequestBytes("GET", path, "HTTP/1.1", host, <<>>),
             ServerConfig(GateLimit, GlobalRoutes, <<"errors">>, VHosts(names)),
             GateFs)

\* Methods.  One route of each kind, with each list of methods, asked for
\* with each method.
KindRoutes(methods) ==
    { RouteConfig(<<"/", "r">>, methods, <<"www">>, None, FALSE, None, Some(<<"/", "to">>)),
      RouteConfig(<<"/", "upload">>, methods, <<"uploads">>, None, FALSE, None, None),
      RouteConfig(<<"/", "cgi">>, methods, <<"cgi-bin">>, None, FALSE, Some(<<"python3">>), None),
      RouteConfig(<<"/", "w">>, methods, <<"www">>, None, TRUE, None, None) }

MethodLists ==
    { <<>>, << <<"GET">> >>, << <<"post">> >>, << <<"POST">>, <<"DELETE">> >>,
      << <<"GET">>, <<"POST">>, <<"DELETE">> >> }

\* the file each of the routes can act on, and the page for 405
MethodFs ==
    [p \in { << <<"www">> >>, << <<"www">>, <<"f">> >>,
             << <<"uploads">> >>, << <<"uploads">>, <<"f">> >>,
             << <<"cgi-bin">> >>, << <<"cgi-bin">>, <<"f">> >>,
             error_file(<<"errors">>, 405) }
        |-> IF Len(p) = 1 THEN Dir ELSE File(<<"content of">> \o p[Len(p)])]

CallMethods ==
    \E methods \in MethodLists, method \in {"GET", "get", "POST", "DELETE", "PUT"} :
        \E route \in KindRoutes(methods) :
            Call(RequestBytes(method, route.path \o <<"/", "f">>, "HTTP/1.1", <<>>,
                              IF method = "POST" THEN <<"x">> ELSE <<>>),
                 ServerConfig(GateLimit, <<route>>, <<"errors">>, <<>>), MethodFs)

\* Static routes.  The root www holds a file f; it may hold index.html, a
\* directory d, and index.html in d.
StaticFs(root_index, sub, sub_index) ==
    [p \in { << <<"www">> >>, << <<"www">>, <<"f">> >> }
            \cup (IF root_index THEN { << <<"www">>, <<"index.html">> >> } ELSE {})
            \cup (IF sub THEN { << <<"www">>, <<"d">> >> } ELSE {})
            \cup (IF sub /\ sub_index
                  THEN { << <<"www">>, <<"d">>, <<"index.html">> >> } ELSE {})
        |-> IF p \in { << <<"www">> >>, << <<"www">>, <<"d">> >> } THEN Dir
            ELSE File(<<"content of">> \o Flatten(p))]

\* what a request path has behind the prefix of a route
Remainders ==
    { <<>>, <<"/">>, <<"/", "d">>, <<"/", "d", "/">>, <<"/", "f">>, <<"/", "x">> }

CallStatic ==
    \E path \in {<<"/">>, <<"/", "s">>}, default_file \in {None, Some(<<"index.html">>)},
       autoindex \in BOOLEAN, root_index \in BOOLEAN, sub \in BOOLEAN,
       sub_index \in BOOLEAN, rem \in Remainders :
        /\ sub_index => sub
        /\ path = <<"/">> => rem # <<>>
        /\ Call(RequestBytes("GET", IF path = <<"/">> THEN rem ELSE path \o rem,
                             "HTTP/1.1", <<>>, <<>>),
                ServerConfig(GateLimit,
                             << RouteConfig(path, << <<"GET">> >>, <<"www">>,
                                            default_file, autoindex, None, None) >>,
                             <<"errors">>, <<>>),
                StaticFs(root_index, sub, sub_index))

(***************************************************************************)
(* config/parser.rs: parse_config_string.  A line is a sequence of atoms:  *)
(* words, " ", "=", ",", ":", "#", "{" and "}".                            *)
(***************************************************************************)
\* str::to_uppercase of an atom (the atoms of the model that have lower case)
to_uppercase(a) ==
    CASE a \in {"get", "Get", "GET"} -> "GET"
      [] a \in {"post", "Post", "POST"} -> "POST"
      [] a \in {"delete", "Delete", "DELETE"} -> "DELETE"
      [] OTHER -> a

\* the local variables of parse_config_string before the first line
ParserState_new ==
    [listen_addresses |-> <<>>, client_body_size_limit |-> 10 * 1024 * 1024,
     error_path |-> <<>>, routes |-> <<>>, vhosts |-> <<>>,
     context |-> "TopLevel", in_vhost |-> FALSE,
     current_route_path |-> <<>>, current_route_methods |-> <<>>,
     current_route_root |-> <<>>, current_default_file |-> <<>>,
     current_route_autoindex |-> FALSE, current_vhost |-> None,
     current_cgi |-> None, current_redirect |-> None]

\* line.split('=').nth(1)
ValueOf(line) ==
    IF Len(split(line, "=")) >= 2 THEN Some(split(line, "=")[2]) ELSE None

\* if let Some(vh) = current_vhost.take() { vhosts.push(vh) }
PushVhost(st) ==
    IF st.current_vhost = None THEN st
    ELSE [st EXCEPT !.vhosts = Append(@, st.current_vhost[1]), !.current_vhost = None]

\* a `vhost ... {` line, the vhost before it saved
VhostLine(st, parts) ==
    IF Len(parts) < 3 \/ parts[3] # <<"{">> THEN st
    ELSE [st EXCEPT !.current_vhost = Some(VHost(parts[2], st.error_path, <<>>)),
                    !.in_vhost = TRUE]

\* a `route ... {` line
RouteOpenLine(st, parts) ==
    IF Len(parts) < 3 \/ parts[3] # <<"{">> THEN st
    ELSE [st EXCEPT !.current_route_path = parts[2], !.context = "InsideRoute"]

\* the loop over the addresses of a listen line
RECURSIVE ListenAddresses(_, _)
ListenAddresses(addresses, pieces) ==
    IF pieces = <<>> THEN addresses
    ELSE ListenAddresses(
            IF /\ IndexOf(Trim(Head(pieces)), ":") # 0
               /\ \A i \in 1..Len(addresses) : addresses[i] # Trim(Head(pieces))
            THEN Append(addresses, Trim(Head(pieces)))
            ELSE addresses,
            Tail(pieces))

ListenLine(st, value) ==
    IF value = None \/ Trim(value[1]) = <<>> THEN st
    ELSE [st EXCEPT !.listen_addresses = ListenAddresses(@, split(Trim(value[1]), ","))]

LimitLine(st, value) ==
    IF value = None \/ from_str_radix(Trim(value[1]), 10) = None THEN st
    ELSE [st EXCEPT !.client_body_size_limit = from_str_radix(Trim(value[1]), 10)[1]]

ErrorPathLine(st, value) ==
    IF value = None \/ Trim(value[1]) = <<>> THEN st
    ELSE [st EXCEPT !.error_path = Trim(value[1]),
                    !.current_vhost =
                        IF @ = None THEN @
                        ELSE Some([@[1] EXCEPT !.error_path = Trim(value[1])])]

\* a line in the context TopLevel; a line that is no directive is skipped
\* with a warning
TopLevelLine(st, line) ==
    IF starts_with(line, <<"vhost">>) /\ line[Len(line)] = "{"
    THEN VhostLine(PushVhost(st), split_whitespace(line))
    ELSE IF starts_with(line, <<"route">>) /\ line[Len(line)] = "{"
    THEN RouteOpenLine(st, split_whitespace(line))
    ELSE IF starts_with(line, <<"listen">>) THEN ListenLine(st, ValueOf(line))
    ELSE IF starts_with(line, <<"client_body_size_limit">>)
    THEN LimitLine(st, ValueOf(line))
    ELSE IF starts_with(line, <<"error_path">>) THEN ErrorPathLine(st, ValueOf(line))
    ELSE st

\* the route of the block that ends
CurrentRoute(st) ==
    RouteConfig(st.current_route_path, st.current_route_methods, st.current_route_root,
                IF st.current_default_file = <<>> THEN Some(<<"index.html">>)
                ELSE Some(st.current_default_file),
                st.current_route_autoindex, st.current_cgi, st.current_redirect)

\* the route validated and added to the vhost or to the global routes
SaveRoute(st) ==
    IF st.current_route_root = <<>> /\ st.current_redirect = None THEN st
    ELSE IF st.current_route_methods = <<>> THEN st
    ELSE IF st.current_vhost # None
    THEN [st EXCEPT !.current_vhost =
                        Some([@[1] EXCEPT !.routes = Append(@, CurrentRoute(st))])]
    ELSE [st EXCEPT !.routes = Append(@, CurrentRoute(st))]

\* the `}` of a route block
CloseRoute(st) ==
    [SaveRoute(st) EXCEPT
        !.current_route_path = <<>>, !.current_route_methods = <<>>,
        !.current_route_root = <<>>, !.current_default_file = <<>>,
        !.current_route_autoindex = FALSE, !.current_cgi = None,
        !.current_redirect = None, !.context = "TopLevel"]

\* the methods of a methods line: trimmed, in upper case, empty ones dropped
RECURSIVE MethodsOf(_)
MethodsOf(pieces) ==
    IF pieces = <<>> THEN <<>>
    ELSE (IF Trim(Head(pieces)) = <<>> THEN <<>>
          ELSE << [i \in 1..Len(Trim(Head(pieces))) |->
                      to_uppercase(Trim(Head(pieces))[i])] >>)
         \o MethodsOf(Tail(pieces))

MethodsLine(st, value) ==
    IF value = None \/ MethodsOf(split(value[1], ",")) = <<>> THEN st
    ELSE [st EXCEPT !.current_route_methods = MethodsOf(split(value[1], ","))]

\* a line in the context InsideRoute
RouteLine(st, line) ==
    IF line = <<"}">> THEN CloseRoute(st)
    ELSE IF starts_with(line, <<"methods">>) THEN MethodsLine(st, ValueOf(line))
    ELSE IF starts_with(line, <<"default_file">>)
    THEN IF ValueOf(line) = None \/ Trim(ValueOf(line)[1]) = <<>> THEN st
         ELSE [st EXCEPT !.current_default_file = Trim(ValueOf(line)[1])]
    ELSE IF starts_with(line, <<"root">>)
    THEN IF ValueOf(line) = None \/ Trim(ValueOf(line)[1]) = <<>> THEN st
         ELSE [st EXCEPT !.current_route_root = Trim(ValueOf(line)[1])]
    ELSE IF starts_with(line, <<"autoindex">>)
    THEN IF ValueOf(line) = None THEN st
         ELSE [st EXCEPT !.current_route_autoindex =
                             Trim(ValueOf(line)[1]) \in {<<"on">>, <<"true">>, <<"yes">>}]
    ELSE IF starts_with(line, <<"cgi">>)
    THEN IF ValueOf(line) = None \/ Trim(ValueOf(line)[1]) = <<>> THEN st
         ELSE [st EXCEPT !.current_cgi = Some(Trim(ValueOf(line)[1]))]
    ELSE IF starts_with(line, <<"redirect">>)
    THEN IF ValueOf(line) = None THEN st
         ELSE [st EXCEPT !.current_redirect = Some(Trim(ValueOf(line)[1]))]
    ELSE st

\* the line without its comment and the space around it
StripComment(line) ==
    IF IndexOf(Trim(line), "#") = 0 THEN Trim(line)
    ELSE Trim(Take(Trim(line), IndexOf(Trim(line), "#") - 1))

\* the body of the loop over the lines, for a line stripped of its comment
ConfigLine(st, line) ==
    IF line = <<>> THEN st
    ELSE IF line = <<"}">> /\ st.in_vhost /\ st.context = "TopLevel"
    THEN [PushVhost(st) EXCEPT !.in_vhost = FALSE]
    ELSE IF st.context = "TopLevel" THEN TopLevelLine(st, line)
    ELSE RouteLine(st, line)

RECURSIVE ConfigLines(_, _)
ConfigLines(st, ls) ==
    IF ls = <<>> THEN st
    ELSE ConfigLines(ConfigLine(st, StripComment(Head(ls))), Tail(ls))

\* the ServerConfig built after the last line; the result is always Ok
FinishConfig(st) ==
    Ok([listen_addresses |-> IF st.listen_addresses = <<>>
                             THEN << <<"127.0.0.1", ":", "8080">> >>
                             ELSE st.listen_addresses,
        client_body_size_limit |-> st.client_body_size_limit,
        routes |-> st.routes, error_path |-> st.error_path,
        vhosts |-> st.vhosts])

parse_config_string(content) ==
    FinishConfig(PushVhost(ConfigLines(ParserState_new, lines(content))))

\* The lines of the configurations that are parsed.
ConfigLineSet ==
    { <<"client_max_body_size", " ", "=", " ", "5">>,
      <<"client_body_size_limit", " ", "=", " ", "5">>,
      <<"invalid", " ", "syntax", " ", "here">>,
      <<"listen", " ", "=", " ", "127.0.0.1", ":", "8080">>,
      <<"vhost", " ", "a.com", " ", "{">>,
      <<"route", " ", "/", " ", "{">>,
      <<" ", " ", "root", " ", "=", " ", "www", " ", "#", " ", "files">>,
      <<" ", " ", "redirect", " ", "=", " ", "/", "new">>,
      <<" ", " ", "methods", " ", "=", " ", "get", ",", " ", "POST">>,
      <<"}">> }

\* the text of some lines
ConfigText(ls) == Flatten([i \in 1..Len(ls) |-> ls[i] \o <<"\n">>])

CallConfig ==
    \E ls \in SeqsUpTo(ConfigLineSet, MaxConfigLines) :
        /\ last.step = "none"
        /\ last' = [step |-> "config", lines |-> ls, content |-> ConfigText(ls),
                    out |-> parse_config_string(ConfigText(ls))]
        /\ UNCHANGED <<clients, interest, socks, backlog, phase, batch, hist, cgi_run>>

(***************************************************************************)
(* Specifications                                                          *)
(***************************************************************************)
Next ==
    \/ ClientConnect
    \/ \E fd \in Fds, r \in Requests : ClientRequest(fd, r, MaxReqs, MaxReqs)
    \/ \E fd \in Fds : ClientDeliver(fd, MaxSegs)
    \/ \E fd \in Fds, how \in {"fin", "rst"} : ClientClose(fd, how)
    \/ Poll
    \/ AcceptEvent(Fds)
    \/ \E fd \in Fds : ClientEvent(fd)
    \/ Cleanup

Spec == Init /\ [][Next]_vars

\* the same program with a clock: time passes while the loop waits in poll
NextTimed ==
    \/ ClientConnect
    \/ \E fd \in Fds, r \in Requests : ClientRequest(fd, r, MaxReqsTimed, MaxReqsTimed)
    \/ \E fd \in Fds : ClientDeliver(fd, MaxSegs)
    \/ \E fd \in Fds, how \in {"fin", "rst"} : ClientClose(fd, how)
    \/ Tick(TickSecs)
    \/ Poll
    \/ AcceptEvent(Fds)
    \/ \E fd \in Fds : ClientEvent(fd)
    \/ Cleanup

SpecTimed == Init /\ [][NextTimed]_vars

\* an event of a client socket waits in the batch: ClientEvent is enabled
ClientEventPending == phase = "events" /\ \E e \in batch : e.fd # ListenerFd

\* the step takes an event of a client socket from the batch: it is a step
\* of ClientEvent
ClientEventTaken == phase = "events" /\ \E e \in batch \ batch' : e.fd # ListenerFd

\* The program with a clock under a fair event loop: poll returns (after
\* TIMEOUT_CHECK_MS at the latest), the for loop takes every event of the
\* batch, the cleanup pass follows it, and time does not stand still.  The
\* last conjunct is weak fairness of ClientEvent, written out.
SpecLive ==
    /\ Init
    /\ [][NextTimed]_vars
    /\ WF_vars(Poll)
    /\ WF_vars(AcceptEvent(Fds))
    /\ WF_vars(Cleanup)
    /\ SF_vars(Tick(TickSecs))
    /\ ([]<>(~ClientEventPending) \/ []<><<ClientEventTaken>>_vars)

\* the same program with a client that sends many requests on one connection
NextLong ==
    \/ ClientConnect
    \/ \E fd \in Fds, r \in RequestsLong : ClientRequest(fd, r, MaxReqsLong, MaxAheadLong)
    \/ \E fd \in Fds : ClientDeliver(fd, MaxSegsLong)
    \/ \E fd \in Fds, how \in {"fin", "rst"} : ClientClose(fd, how)
    \/ Poll
    \/ AcceptEvent(Fds)
    \/ \E fd \in Fds : ClientEvent(fd)
    \/ Cleanup

SpecLong == Init /\ [][NextLong]_vars

\* the same program with a client that also sends malformed header sections
NextMalformed ==
    \/ ClientConnect
    \/ \E fd \in Fds, r \in RequestsMalformed : ClientRequest(fd, r, MaxReqs, MaxReqs)
    \/ \E fd \in Fds : ClientDeliver(fd, MaxSegs)
    \/ \E fd \in Fds, how \in {"fin", "rst"} : ClientClose(fd, how)
    \/ Poll
    \/ AcceptEvent(Fds)
    \/ \E fd \in Fds : ClientEvent(fd)
    \/ Cleanup

SpecMalformed == Init /\ [][NextMalformed]_vars

\* the same program with a client that never completes a request
NextFlood ==
    \/ ClientConnect
    \/ \E fd \in Fds, r \in RequestsFlood : ClientRequest(fd, r, MaxFlood, MaxFlood)
    \/ \E fd \in Fds : ClientDeliver(fd, 1)
    \/ \E fd \in Fds, how \in {"fin", "rst"} : ClientClose(fd, how)
    \/ Poll
    \/ AcceptEvent({1})
    \/ \E fd \in Fds : ClientEvent(fd)
    \/ Cleanup

SpecFlood == Init /\ [][NextFlood]_vars

\* the same program with several clients at once
FdsPair == 1..MaxFdsPair

NextPair ==
    \/ ClientConnectUpTo(MaxBacklogPair)
    \/ \E fd \in FdsPair, r \in RequestsLong : ClientRequest(fd, r, MaxReqsPair, MaxReqsPair)
    \/ \E fd \in FdsPair : ClientDeliver(fd, 1)
    \/ \E fd \in FdsPair, how \in {"fin", "rst"} : ClientClose(fd, how)
    \/ Poll
    \/ AcceptEvent(FdsPair)
    \/ \E fd \in FdsPair : ClientEvent(fd)
    \/ Cleanup

SpecPair == Init /\ [][NextPair]_vars

\* the same program with several clients and sockets whose setup may fail
NextAccept ==
    \/ ClientConnectUpTo(MaxBacklogPair)
    \/ \E fd \in FdsPair : ClientRequest(fd, ReqClose, MaxReqsPair, MaxReqsPair)
    \/ \E fd \in FdsPair : ClientDeliver(fd, 1)
    \/ \E fd \in FdsPair, how \in {"fin", "rst"} : ClientClose(fd, how)
    \/ Poll
    \/ AcceptEventWith(FdsPair, SetupOutcomes)
    \/ \E fd \in FdsPair : ClientEvent(fd)
    \/ Cleanup

SpecAccept == Init /\ [][NextAccept]_vars

\* the same program with a clock and several clients that send nothing
FdsIdle == 1..MaxFdsIdle

NextIdle ==
    \/ ClientConnectUpTo(MaxBacklogPair)
    \/ \E fd \in FdsIdle, how \in {"fin", "rst"} : ClientClose(fd, how)
    \/ Tick(TickSecs)
    \/ Poll
    \/ AcceptEvent(FdsIdle)
    \/ \E fd \in FdsIdle : ClientEvent(fd)
    \/ Cleanup

SpecIdle == Init /\ [][NextIdle]_vars

\* The same program with several clients, with route_request in full under
\* the upload configuration.  A panic in route_request unwinds through
\* process_and_queue_response and run, which catch nothing: the process ends
\* and the kernel closes every socket it held.
ReqUploadNoBlankLine ==
    RequestBytes("POST", <<"/", "upload">>, "HTTP/1.1",
                 HeaderLine("Content-Type",
                            <<"multipart/form-data", ";", " ", "boundary", "=", "B">>),
                 <<"-", "-", "B">>)

RequestsRouted == {ReqKeep, ReqUploadNoBlankLine}

\* what route_request returns for the request an event made ready, None when
\* it panics; it is not called when no request is ready
RoutedBy(ready, request, config, fs) ==
    IF ready /\ request # None
    THEN route_request(request[1], config, fs).response
    ELSE Some(bad_request)

\* the loop body for an event of fd, the socket having answered rd, with
\* route_request returning routed
ClientEventReturns(fd, event, rd, routed) ==
    /\ routed # None
    /\ ClientEventWrite(fd, event, ParsedRequest(clients[fd], event, rd),
                        ReadStep(clients[fd], event, rd, routed[1]))
    /\ UNCHANGED <<backlog, phase, cgi_run>>

\* the loop body for an event of fd in which route_request panics
ClientEventPanics(fd, routed) ==
    /\ routed = None
    /\ phase' = "aborted"
    /\ clients' = EmptyMap
    /\ interest' = EmptyMap
    /\ socks' = EmptyMap
    /\ hist' = EmptyMap
    /\ last' = [NoEvent EXCEPT !.step = "abort", !.fd = fd,
                               !.state_before = clients[fd].state,
                               !.lost = (DOMAIN clients) \ {fd}]
    /\ UNCHANGED <<backlog, cgi_run>>

\* An event of a client socket with route_request in full: the loop body of
\* run for it.
ClientEventRouted(fd, config, fs) ==
    /\ phase = "events"
    /\ fd \in DOMAIN clients
    /\ \E event \in batch :
        /\ event.fd = fd
        /\ batch' = batch \ {event}
        /\ \E rd \in ReadAnswers(socks[fd], event) :
              \/ ClientEventReturns(fd, event, rd,
                     RoutedBy(ReadStep(clients[fd], event, rd, bad_request).ready,
                              ParsedRequest(clients[fd], event, rd), config, fs))
              \/ ClientEventPanics(fd,
                     RoutedBy(ReadStep(clients[fd], event, rd, bad_request).ready,
                              ParsedRequest(clients[fd], event, rd), config, fs))

NextRouted ==
    \/ ClientConnectUpTo(MaxBacklogPair)
    \/ \E fd \in FdsPair, r \in RequestsRouted : ClientRequest(fd, r, MaxReqsPair, MaxReqsPair)
    \/ \E fd \in FdsPair : ClientDeliver(fd, 1)
    \/ \E fd \in FdsPair, how \in {"fin", "rst"} : ClientClose(fd, how)
    \/ Poll
    \/ AcceptEvent(FdsPair)
    \/ \E fd \in FdsPair : ClientEventRouted(fd, UploadConfig, UploadFs)
    \/ Cleanup

SpecRouted == Init /\ [][NextRouted]_vars

\* uploads served one by one
NextUpload == CallUpload

SpecUpload == Init /\ [][NextUpload]_vars

\* well-formed uploads served one by one
NextPart == CallPart

SpecPart == Init /\ [][NextPart]_vars

\* deletions served one by one
NextDelete == CallDelete

SpecDelete == Init /\ [][NextDelete]_vars

\* configuration texts parsed one by one
NextConfig == CallConfig

SpecConfig == Init /\ [][NextConfig]_vars

\* requests with a body parsed one by one
NextParse ==
    \/ CallLength
    \/ CallChunked

SpecParse == Init /\ [][NextParse]_vars

\* requests routed one by one
NextRoute ==
    \/ CallGates
    \/ CallRoutes
    \/ CallVhosts
    \/ CallMethods
    \/ CallStatic

SpecRoute == Init /\ [][NextRoute]_vars

\* A run of run_cgi in one step: the child wrote stdout_buf and stderr_buf,
\* closed its streams and exited within the deadline, and the response is
\* built from what it wrote
CgiBuild(stdout_buf, stderr_buf) ==
    /\ cgi_run.pc = "idle"
    /\ cgi_run' = [SpawnChild(0, <<>>) EXCEPT
                      !.pc = "done", !.child = "exited",
                      !.out.open = FALSE, !.err.open = FALSE,
                      !.stdout_done = TRUE, !.stderr_done = TRUE,
                      !.stdout_buf = stdout_buf, !.stderr_buf = stderr_buf,
                      !.response = Some(cgi_response(stdout_buf, stderr_buf))]
    /\ NotInCgi

\* the pieces of the output of a script: two header lines without their
\* ends, the two line ends, a byte
CgiOutputPieces ==
    { <<"Content-Type", ":", " ", "text/html">>,
      <<"Status", ":", " ", "4", "0", "4", " ", "Not Found">>,
      <<"\r", "\n">>,
      <<"\n">>,
      <<"b">> }

CgiOutputs == {Flatten(q) : q \in SeqsUpTo(CgiOutputPieces, MaxOutputPieces)}

CgiErrors == {<<>>, <<"\n">>, <<"oops", "\n">>}

\* the outputs of scripts turned into responses, one in a behaviour
NextCgiOutput ==
    \E stdout_buf \in CgiOutputs, stderr_buf \in CgiErrors : CgiBuild(stdout_buf, stderr_buf)

SpecCgiOutput == Init /\ [][NextCgiOutput]_vars

\* the programs of the child
ChildPrograms == SeqsUpTo(ChildOps, MaxChildOps)

\* runs of run_cgi, one in a behaviour
NextCgi ==
    \/ \E body_len \in 0..MaxCgiBody, prog \in ChildPrograms : CgiSpawn(body_len, prog)
    \/ \E prog \in ChildPrograms : CgiPollerFails(prog)
    \/ CgiWriteStdin
    \/ CgiLoop
    \/ CgiWait
    \/ ChildStep
    \/ CgiTick

SpecCgi == Init /\ [][NextCgi]_vars

(***************************************************************************)
(* Properties                                                              *)
(***************************************************************************)
\* the connection's state is Closing
must_close(self) == self.state = "Closing"

C2_ResponsesOrdered ==
    /\ \A fd \in DOMAIN hist :
          /\ hist[fd].written <= hist[fd].queued
          /\ hist[fd].queued <= hist[fd].written + 1
          /\ hist[fd].queued <= hist[fd].rcvd
    /\ (last.fd # ListenerFd /\ last.state_before = "Writing") =>
          /\ ~last.read_io
          /\ last.read_n = 0
          /\ last.parses = 0
          /\ ~last.queued
    /\ last.queued => last.state_before = "Reading"

\* a write event on a connection in state Writing while the bytes of the
\* client's next request wait in the socket
C2_Witness ==
    /\ last.fd \in DOMAIN socks
    /\ last.state_before = "Writing"
    /\ last.write_io
    /\ socks[last.fd].inbound # <<>>
    /\ hist[last.fd].begun = 2

\* C3: on a keep-alive connection every request the server has read
\* completely is answered or still held in read_buffer: the connection never
\* waits in state Reading with an empty read_buffer while a request it read
\* has no response, however the bytes of two back-to-back requests are split
\* across reads.
C3_TwoRequestsTwoResponses ==
    \A fd \in DOMAIN clients :
        (clients[fd].state = "Reading" /\ hist[fd].rcvd > hist[fd].written)
            => clients[fd].read_buffer # <<>>

\* both requests were read in one read, one response was written, and the
\* connection waits for bytes with nothing left of the second request
C3_Witness ==
    \E fd \in DOMAIN clients :
        /\ clients[fd].state = "Reading"
        /\ clients[fd].read_buffer = <<>>
        /\ socks[fd].inbound = <<>>
        /\ socks[fd].unsent = <<>>
        /\ hist[fd].rcvd = 2
        /\ hist[fd].written = 1

\* C4: no connection has more than MAX_REQUESTS_PER_CONN responses written
\* completely on it.
C4_AtMostMaxResponses ==
    \A fd \in DOMAIN hist : hist[fd].written <= MAX_REQUESTS_PER_CONN

\* a connection on which one response more than MAX_REQUESTS_PER_CONN was
\* written
C4_Witness ==
    \E fd \in DOMAIN hist : hist[fd].written = MAX_REQUESTS_PER_CONN + 1

\* the request whose response was queued last asked for keep-alive: its
\* Connection header is absent or is not "close" in any letter case
KeepAliveAsked(fd) ==
    \/ hist[fd].conn_header = None
    \/ ~eq_ignore_ascii_case(hist[fd].conn_header[1], <<"close">>)

\* the connection is as reset_for_next_request leaves it, rh being its
\* requests_handled before
IsReset(c, rh) ==
    /\ c.read_buffer = <<>>
    /\ c.write_buffer = <<>>
    /\ c.bytes_written = 0
    /\ c.requests_handled = rh + 1
    /\ c.request_started_at = None

\* C5, as stated: an event that wrote the last byte of a response leaves the
\* connection reset and Reading exactly when the request asked for keep-alive
\* and requests_handled < 100, and Closing otherwise; an event that wrote
\* without finishing the response neither resets nor closes the connection.
C5_AsStated ==
    last.fd \in DOMAIN clients =>
        LET c == clients[last.fd]
        IN  /\ last.write_done =>
                  IF KeepAliveAsked(last.fd) /\ last.rh_before < MAX_REQUESTS_PER_CONN
                  THEN IsReset(c, last.rh_before) /\ c.state = "Reading"
                  ELSE c.state = "Closing" /\ c.requests_handled = last.rh_before
            /\ (last.write_io /\ ~last.write_done) =>
                  /\ ~last.did_reset
                  /\ c.requests_handled = last.rh_before
                  /\ c.state = "Writing"

\* C5, amended: as stated, except that a reset connection is Closing instead
\* of Reading when the poller refused the change of interest, and that a
\* connection is Closing before the last byte when the write failed.
C5_ResetOrCloseAfterWrite ==
    last.fd \in DOMAIN clients =>
        LET c == clients[last.fd]
        IN  /\ last.write_done =>
                  IF KeepAliveAsked(last.fd) /\ last.rh_before < MAX_REQUESTS_PER_CONN
                  THEN /\ IsReset(c, last.rh_before)
                       /\ c.state = IF last.modify_failed THEN "Closing" ELSE "Reading"
                  ELSE c.state = "Closing" /\ c.requests_handled = last.rh_before
            /\ (last.write_io /\ ~last.write_done) =>
                  /\ ~last.did_reset
                  /\ c.requests_handled = last.rh_before
                  /\ c.state = IF last.write_err THEN "Closing" ELSE "Writing"

\* the last byte of a response was written on a keep-alive connection that
\* had handled MAX_REQUESTS_PER_CONN requests, and the connection is Closing
C5_Witness ==
    /\ last.fd \in DOMAIN clients
    /\ last.write_done
    /\ KeepAliveAsked(last.fd)
    /\ last.rh_before = MAX_REQUESTS_PER_CONN
    /\ clients[last.fd].state = "Closing"

C7_RequestTimeoutEnforced ==
    [][(phase = "events" /\ phase' = "wait") =>
          \A fd \in DOMAIN clients :
              is_request_timeout(clients[fd], RequestTimeoutSecs) =>
                  fd \notin DOMAIN clients']_vars

\* a cleanup pass has just left in the map a connection whose request began
\* more than the request timeout ago and is not complete
C7_Witness ==
    /\ last.step = "cleanup"
    /\ \E fd \in DOMAIN clients :
          /\ is_request_timeout(clients[fd], RequestTimeoutSecs)
          /\ clients[fd].last_activity <= IDLE_TIMEOUT_SECS

C9_BytesWrittenExact ==
    /\ \A fd \in DOMAIN clients :
          clients[fd].bytes_written <= Len(clients[fd].write_buffer)
    /\ last.bw_after = last.bw_before + last.write_n
    /\ last.bw_after <= last.wb_len
    /\ last.fd \in DOMAIN clients =>
          IF last.queued \/ last.did_reset
          THEN clients[last.fd].bytes_written = 0
          ELSE /\ clients[last.fd].bytes_written = last.bw_after
               /\ last.bw_after >= last.bw_start

\* a write moved bytes_written forward from a position inside the response
C9_Witness ==
    /\ last.write_io
    /\ last.bw_before > 0
    /\ last.write_n > 0
    /\ last.bw_after = last.bw_before + last.write_n

\* C10: request_started_at is set only while bytes of the current request
\* were received and the request is not complete; it is not set in state
\* Writing.
C10_StartedOnlyWhileIncomplete ==
    \A fd \in DOMAIN clients :
        clients[fd].request_started_at # None =>
            /\ clients[fd].state # "Writing"
            /\ clients[fd].read_buffer # <<>>
            /\ parse(clients[fd].read_buffer) = None

\* a connection in state Writing whose request_started_at is set
C10_Witness ==
    \E fd \in DOMAIN clients :
        /\ clients[fd].state = "Writing"
        /\ clients[fd].request_started_at # None

\* the buffer holds a header section that ends in CRLF CRLF and whose request
\* line has fewer than three tokens or whose Content-Length is no unsigned
\* decimal number
MalformedHeaderBlock(buffer) ==
    LET headers_end == find_double_crlf(buffer)
    IN  /\ headers_end # None
        /\ LET ls == lines(Take(buffer, headers_end[1]))
           IN  \/ ls = <<>>
               \/ Len(split_whitespace(Head(ls))) < 3
               \/ LET cl == MapGet(parse_headers(Tail(ls)), <<"Content-Length">>)
                  IN  cl # None /\ from_str_radix(cl[1], 10) = None

\* C11: when an event has read bytes and the read buffer then holds a
\* malformed header section that ends in CRLF CRLF, the event has queued a
\* 400 response for the connection.
C11_MalformedAnswered400 ==
    \A fd \in DOMAIN clients :
        (/\ last.step = "event"
         /\ last.fd = fd
         /\ last.read_n > 0
         /\ MalformedHeaderBlock(clients[fd].read_buffer))
        => /\ last.queued
           /\ clients[fd].write_buffer # <<>>
           /\ clients[fd].write_buffer[1].status_code = 400

\* an event has read a malformed header section to its end and has left the
\* connection waiting for more bytes, nothing queued
C11_Witness ==
    \E fd \in DOMAIN clients :
        /\ last.step = "event"
        /\ last.fd = fd
        /\ last.read_n > 0
        /\ MalformedHeaderBlock(clients[fd].read_buffer)
        /\ clients[fd].state = "Reading"
        /\ clients[fd].write_buffer = <<>>
        /\ ~last.queued

\* C12: every complete request gets a response from route_request, the
\* multipart upload handler included, whatever the body: no call panics.
C12_EveryRequestAnswered ==
    (last.step = "call" /\ last.request # None) => last.out[1].response # None

\* a multipart upload whose body has no blank line after the part headers
\* has reached the upload handler, which panicked
C12_Witness ==
    /\ last.step = "call"
    /\ last.request # None
    /\ find_double_crlf(last.request[1].body) = None
    /\ starts_with(last.request[1].body, <<"-", "-", "B">>)
    /\ last.out[1].response = None

\* C13: for a request that carries Content-Length: n, parse returns none
\* while fewer than n bytes follow the header section, and otherwise a
\* request whose body is the first n of those bytes, whatever follows them.
C13_BodyIsFirstNBytes ==
    \A n \in 0..MaxLength, tail \in LengthTails :
        (last.step = "call" /\ last.buffer = LengthRequest(n, tail))
        => IF Len(tail) < n
           THEN last.request = None
           ELSE /\ last.request # None
                /\ last.request[1].body = Take(tail, n)

\* a request that announces two bytes was parsed with three bytes behind its
\* header section: its body is the first two
C13_Witness ==
    /\ last.step = "call"
    /\ last.buffer = LengthRequest(2, <<"x", "\r", "\n">>)
    /\ last.request # None
    /\ last.request[1].body = <<"x", "\r">>

\* C14: for a request whose Transfer-Encoding contains chunked in any case
\* and that has no Content-Length, parse returns none as long as the buffer
\* ends before the end of the zero-size chunk's line (inside a size line,
\* inside chunk data, before a chunk's CRLF), and otherwise a request whose
\* body is the concatenation of the payloads of the chunks before it.
C14_ChunkedBody ==
    \A te \in TransferEncodings, chunks \in SeqsUpTo(ChunkPayloads, MaxChunks) :
        \A k \in 0..Len(ChunkedBody(chunks)) :
            (last.step = "call" /\ last.buffer = ChunkedRequest(te, chunks, k))
            => IF k < Len(EncodeChunks(chunks)) + 3
               THEN last.request = None
               ELSE /\ last.request # None
                    /\ last.request[1].body = Flatten(chunks)

\* a request of two chunks, one of them with CR LF as its payload, was parsed
\* once the zero-size chunk's line had arrived
C14_Witness ==
    /\ last.step = "call"
    /\ last.buffer = ChunkedRequest(<<"gzip", ",", " ", "CHUNKED">>,
                                    << <<"\r", "\n">>, <<"x">> >>, 16)
    /\ last.request # None
    /\ last.request[1].body = <<"\r", "\n", "x">>

\* the path with its escapes %2e, %2f and %00 written out
RECURSIVE Unescaped(_)
Unescaped(path) ==
    IF path = <<>> THEN <<>>
    ELSE IF Len(path) >= 3 /\ Take(path, 3) \in {<<"%", "2", "e">>, <<"%", "2", "E">>}
    THEN <<".">> \o Unescaped(Drop(path, 3))
    ELSE IF Len(path) >= 3 /\ Take(path, 3) \in {<<"%", "2", "f">>, <<"%", "2", "F">>}
    THEN <<"/">> \o Unescaped(Drop(path, 3))
    ELSE IF Len(path) >= 3 /\ Take(path, 3) = <<"%", "0", "0">>
    THEN <<"NUL">> \o Unescaped(Drop(path, 3))
    ELSE <<Head(path)>> \o Unescaped(Tail(path))

\* the path contains "..", NUL or "//", literally or as escapes
UnsafePath(path) ==
    \/ Contains(Unescaped(path), <<".", ".">>)
    \/ Contains(Unescaped(path), <<"NUL">>)
    \/ Contains(Unescaped(path), <<"/", "/">>)

\* the call read no file but the error page of its status, and executed,
\* wrote, deleted and listed nothing
OnlyErrorPageRead(call) ==
    \A e \in call.out[1].effects :
        /\ e.op = "read"
        /\ e.path = error_file(call.config.error_path,
                               call.out[1].response[1].status_code)

\* C15 as stated: every request whose path contains "..", NUL or "//",
\* literally or as escapes, is answered 403, and no file is touched for it.
C15_AsStated ==
    (last.step = "call" /\ last.request # None /\ UnsafePath(last.request[1].path))
    => /\ last.out[1].response # None
       /\ last.out[1].response[1].status_code = 403
       /\ OnlyErrorPageRead(last)

\* C15: every request whose path contains "..", NUL or "//", literally or as
\* escapes, is answered 403 when its version is HTTP/1.1 and 400 otherwise;
\* in both cases no file is read but the error page of that status, and
\* nothing is executed, written or deleted.
C15_UnsafePathRefused ==
    (last.step = "call" /\ last.request # None /\ UnsafePath(last.request[1].path))
    => /\ last.out[1].response # None
       /\ last.out[1].response[1].status_code
             = (IF last.request[1].version = <<"HTTP/1.1">> THEN 403 ELSE 400)
       /\ OnlyErrorPageRead(last)

\* an HTTP/1.1 request for /%2e%2e was answered with the 403 page
C15_Witness ==
    /\ last.step = "call"
    /\ last.request # None
    /\ last.request[1].path = <<"/", "%", "2", "e", "%", "2", "e">>
    /\ last.request[1].version = <<"HTTP/1.1">>
    /\ last.out[1].response[1].status_code = 403
    /\ last.out[1].effects = {Effect("read", error_file(<<"errors">>, 403))}

\* the configuration without its routes and virtual hosts
Bare(config) == [config EXCEPT !.routes = <<>>, !.vhosts = <<>>]

\* C16: route_request answers 400 when the version is not HTTP/1.1; else 403
\* when the path is unsafe; else 413 when the body is longer than
\* client_body_size_limit; in each case the answer is the one it gives
\* without routes and virtual hosts.  A safe HTTP/1.1 request whose body is
\* at most the limit gets none of these answers from the gates: under a
\* configuration without routes it is answered 404, under one whose route /
\* lists its directories 200 or 404.
C16_GatesInOrder ==
    (last.step = "call" /\ last.request # None)
    => LET request == last.request[1]
           status  == last.out[1].response[1].status_code
           gate    == IF request.version # <<"HTTP/1.1">> THEN 400
                      ELSE IF UnsafePath(request.path) THEN 403
                      ELSE IF Len(request.body) > last.config.client_body_size_limit
                      THEN 413 ELSE 0
       IN  /\ last.out[1].response # None
           /\ gate # 0 => /\ status = gate
                          /\ last.out[1] = route_request(request, Bare(last.config), last.fs)
           /\ (gate = 0 /\ last.config \in GateConfigs) => status \in {200, 404}

\* a safe HTTP/1.1 request with a body of exactly the limit passed the gates,
\* under a configuration with a virtual host for its Host
C16_Witness ==
    /\ last.step = "call"
    /\ last.request # None
    /\ last.request[1].version = <<"HTTP/1.1">>
    /\ last.request[1].path = <<"/", "a">>
    /\ Len(last.request[1].body) = last.config.client_body_size_limit
    /\ last.config.vhosts # <<>>
    /\ last.out[1].response[1].status_code = 200

\* the request of the call passes the three gates of route_request
PassesGates(call) ==
    /\ call.step = "call"
    /\ call.request # None
    /\ call.request[1].version = <<"HTTP/1.1">>
    /\ ~UnsafePath(call.request[1].path)
    /\ Len(call.request[1].body) <= call.config.client_body_size_limit

\* the value of the response's Location header, if any
LocationOf(call) == MapGet(call.out[1].response[1].headers, "Location")

\* C17: for a request that reaches the match against the routes, each of
\* which redirects and allows the request's method, the route acted on has a path that is a prefix of the request path and no route
\* with a prefix path has a longer one; the answer is 404, no route being
\* found, exactly when no route path is a prefix of the request path.
C17_LongestPrefixRoute ==
    (PassesGates(last) /\ last.config.vhosts = <<>>
        /\ \A i \in 1..Len(last.config.routes) :
              /\ last.config.routes[i].redirect # None
              /\ last.config.routes[i].methods = <<last.request[1].method>>)
    => LET routes   == last.config.routes
           path     == last.request[1].path
           prefixes == {i \in 1..Len(routes) : starts_with(path, routes[i].path)}
       IN  /\ last.out[1].response # None
           /\ (last.out[1].response[1].status_code = 404) <=> (prefixes = {})
           /\ prefixes # {} =>
                \E i \in prefixes :
                    /\ LocationOf(last) = routes[i].redirect
                    /\ \A j \in prefixes : Len(routes[j].path) <= Len(routes[i].path)

\* /ab was requested under the routes /a, /ab and /, in this order, and the
\* second one answered
C17_Witness ==
    /\ PassesGates(last)
    /\ last.request[1].path = <<"/", "a", "b">>
    /\ Len(last.config.routes) = 3
    /\ last.config.routes[1].path = <<"/", "a">>
    /\ last.config.routes[2].path = <<"/", "a", "b">>
    /\ last.config.routes[3].path = <<"/">>
    /\ LocationOf(last) = Some(<<"/", "to", "2">>)

\* the Host header's value with any :port suffix removed, if there is one
HostName(request) ==
    IF <<"Host">> \notin DOMAIN request.headers THEN None
    ELSE IF IndexOf(request.headers[<<"Host">>], ":") = 0
    THEN Some(request.headers[<<"Host">>])
    ELSE Some(Take(request.headers[<<"Host">>],
                   IndexOf(request.headers[<<"Host">>], ":") - 1))

\* the configuration whose only routes are those of the virtual host the
\* request names, the global routes when it names none
Selected(config, request) ==
    LET named == {i \in 1..Len(config.vhosts) :
                     Some(config.vhosts[i].name) = HostName(request)}
    IN  IF named = {} THEN [config EXCEPT !.vhosts = <<>>]
        ELSE [config EXCEPT !.routes = config.vhosts[Minimum(named)].routes,
                            !.error_path = config.vhosts[Minimum(named)].error_path,
                            !.vhosts = <<>>]

\* C18: a request that passes the gates is routed as under a configuration
\* that has no virtual hosts and whose routes are those of the first virtual
\* host whose name equals the Host header's value without its :port suffix,
\* and the global routes when the list of virtual hosts is empty, the Host
\* header absent, or no name equal: the two sets of routes are never mixed.
C18_RoutesOfNamedVhost ==
    (PassesGates(last) /\ last.config.routes = GlobalRoutes)
    => /\ last.out[1] = route_request(last.request[1],
                                      Selected(last.config, last.request[1]), last.fs)
       /\ LET named == {i \in 1..Len(last.config.vhosts) :
                           Some(last.config.vhosts[i].name) = HostName(last.request[1])}
          IN  \/ LocationOf(last) = None
              \/ IF named = {}
                 THEN LocationOf(last) \in {GlobalRoutes[i].redirect : i \in 1..2}
                 ELSE LocationOf(last)
                         = last.config.vhosts[Minimum(named)].routes[1].redirect

\* /a was requested with Host: b:80:1 under the virtual hosts a, b, b: the one
\* route of the second virtual host answered
C18_Witness ==
    /\ PassesGates(last)
    /\ last.request[1].path = <<"/", "a">>
    /\ MapGet(last.request[1].headers, <<"Host">>) = Some(<<"b", ":", "80", ":", "1">>)
    /\ Len(last.config.vhosts) = 3
    /\ last.config.vhosts[1].name = <<"a">>
    /\ last.config.vhosts[2].name = <<"b">>
    /\ last.config.vhosts[3].name = <<"b">>
    /\ LocationOf(last) = Some(<<"/", "vhost", "2">>)

\* the one route of the call's configuration, which has no virtual hosts,
\* matches the request
OneRouteMatches(call) ==
    /\ PassesGates(call)
    /\ call.config.vhosts = <<>>
    /\ Len(call.config.routes) = 1
    /\ starts_with(call.request[1].path, call.config.routes[1].path)

\* the route's methods contain the method, compared without regard to case
MethodAllowed(route, method) ==
    \E i \in 1..Len(route.methods) :
        to_ascii_lowercase(Head(route.methods[i])) = to_ascii_lowercase(Head(method))

\* C19: when the methods of the matched route do not contain the request's
\* method, compared without regard to case, the answer is 405 and nothing
\* was done for the route: no redirect, no upload, no deletion, no CGI run,
\* no file read but the page for 405.
C19_MethodNotAllowed ==
    (OneRouteMatches(last)
        /\ ~MethodAllowed(last.config.routes[1], last.request[1].method))
    => /\ last.out[1].response # None
       /\ last.out[1].response[1].status_code = 405
       /\ LocationOf(last) = None
       /\ OnlyErrorPageRead(last)

\* DELETE /upload/f was refused under an upload route that allows only post,
\* the file uploads/f being there
C19_Witness ==
    /\ OneRouteMatches(last)
    /\ last.request[1].method = <<"DELETE">>
    /\ last.request[1].path = <<"/", "upload", "/", "f">>
    /\ last.config.routes[1].methods = << <<"post">> >>
    /\ << <<"uploads">>, <<"f">> >> \in DOMAIN last.fs
    /\ last.out[1].response[1].status_code = 405
    /\ last.out[1].effects = {Effect("read", error_file(<<"errors">>, 405))}

\* the one route of the call is a static route that allows the method
StaticRouteMatches(call) ==
    /\ OneRouteMatches(call)
    /\ MethodAllowed(call.config.routes[1], call.request[1].method)
    /\ call.config.routes[1].redirect = None
    /\ call.config.routes[1].cgi = None
    /\ ~Contains(call.config.routes[1].path, <<"/", "upload">>)

\* the path the request resolves to: the route's root and the names that
\* remain behind the route's prefix
Resolved(route, path) ==
    <<route.root>> \o NormalNames(split(IF route.path = <<"/">> THEN path
                                        ELSE Drop(path, Len(route.path)), "/"))

\* C20: when the request of a static route resolves to a directory, the
\* route's root included, the answer is the default file with 200 if the
\* directory holds it, else a listing with 200 if autoindex is on, else 403;
\* the answer is 404 only when the resolved path does not exist.
C20_DirectoryHandling ==
    StaticRouteMatches(last)
    => LET route    == last.config.routes[1]
           resolved == Resolved(route, last.request[1].path)
           status   == last.out[1].response[1].status_code
           index    == IF route.default_file = None THEN resolved
                       ELSE Append(resolved, route.default_file[1])
       IN  /\ status = 404 => resolved \notin DOMAIN last.fs
           /\ (resolved \in DOMAIN last.fs /\ last.fs[resolved].kind = "dir")
              => IF route.default_file # None /\ index \in DOMAIN last.fs
                    /\ last.fs[index].kind = "file"
                 THEN /\ status = 200
                      /\ last.out[1].response[1].body = last.fs[index].content
                 ELSE IF route.autoindex
                 THEN /\ status = 200
                      /\ Effect("list", resolved) \in last.out[1].effects
                 ELSE status = 403

\* / was requested under the route / with default file index.html and
\* autoindex on, the root holding no index.html: the answer is 404
C20_Witness ==
    /\ StaticRouteMatches(last)
    /\ last.config.routes[1].path = <<"/">>
    /\ last.request[1].path = <<"/">>
    /\ last.config.routes[1].default_file = Some(<<"index.html">>)
    /\ last.config.routes[1].autoindex
    /\ << <<"www">> >> \in DOMAIN last.fs
    /\ << <<"www">>, <<"index.html">> >> \notin DOMAIN last.fs
    /\ last.out[1].response[1].status_code = 404

\* C21: at every point of a run of run_cgi, whatever the child does, the
\* loop and the wait for the child have not lasted longer than the deadline
\* of 5 s (by more than the tick of the clock in which the loop notices it),
\* and a run that returned 504 has killed a child that had not exited.
C21_DeadlineEnforced ==
    /\ cgi_run.pc \in {"loop", "wait"} => cgi_run.elapsed <= CGI_TIMEOUT_SECS + 1
    /\ (cgi_run.pc = "done" /\ cgi_run.response[1].status_code = 504) => cgi_run.child # "running"

\* the child closed stdout and stderr and keeps running; the loop has ended
\* and run_cgi is in child.wait() after the deadline
C21_Witness ==
    /\ cgi_run.pc = "wait"
    /\ cgi_run.child = "running"
    /\ cgi_run.prog = <<"hang">>
    /\ cgi_run.stdout_done /\ cgi_run.stderr_done
    /\ cgi_run.elapsed > CGI_TIMEOUT_SECS + 1

\* C30: in no state of a run of run_cgi is the server blocked in the write
\* of the request body to the child's stdin while the child is blocked in a
\* write to a pipe only the server empties.
C30_NoMutualWait ==
    ~(/\ cgi_run.pc = "write"
      /\ ~StdinWritable(cgi_run)
      /\ ChildBlocked(cgi_run)
      /\ Head(cgi_run.prog) \in {"out", "err"})

\* the server has been blocked in write_all for longer than the deadline,
\* the child having filled its stdout pipe before it reads stdin
C30_Witness ==
    /\ cgi_run.pc = "write"
    /\ cgi_run.body > 0
    /\ cgi_run.stdin = PipeCapacity
    /\ cgi_run.prog # <<>> /\ Head(cgi_run.prog) = "out"
    /\ Len(cgi_run.out.data) = PipeCapacity
    /\ cgi_run.elapsed > CGI_TIMEOUT_SECS + 1

\* the output cut at its first blank line, where an empty line ends the
\* header lines with "\n\n" or with "\r\n\r\n": <<headers, body>>, or None
\* when the output has no blank line
AtFirstBlankLine(raw) ==
    LET crlf == WindowPosition(raw, <<"\r", "\n", "\r", "\n">>, 0)
        lf   == WindowPosition(raw, <<"\n", "\n">>, 0)
    IN  IF crlf = None /\ lf = None THEN None
        ELSE IF lf = None \/ (crlf # None /\ crlf[1] < lf[1])
        THEN Some(<<Take(raw, crlf[1]), Drop(raw, crlf[1] + 4)>>)
        ELSE Some(<<Take(raw, lf[1]), Drop(raw, lf[1] + 2)>>)

\* C22: the response run_cgi builds from the child's output.  Empty stdout
\* gives 500, with the generic message when stderr is empty too and with
\* stderr's text when it has any.  Otherwise, for an output with a blank line,
\* the body is exactly the bytes after the first blank line, the headers are
\* those of the lines before it with Content-Type text/plain; charset=utf-8
\* when they name none, and the status is that of their Status line, else 200.
C22_ResponseFromOutput ==
    cgi_run.pc = "done" /\ cgi_run.response[1].status_code # 504 =>
        IF cgi_run.stdout_buf = <<>>
        THEN /\ cgi_run.response[1].status_code = 500
             /\ cgi_run.stderr_buf = <<>> =>
                    cgi_run.response[1].body = <<"CGI produced no output">>
             /\ Trim(cgi_run.stderr_buf) # <<>> =>
                    cgi_run.response[1].body = <<"CGI error: ">> \o cgi_run.stderr_buf
        ELSE AtFirstBlankLine(cgi_run.stdout_buf) # None =>
             /\ cgi_run.response[1].body = AtFirstBlankLine(cgi_run.stdout_buf)[1][2]
             /\ cgi_run.response[1].headers =
                    CgiResponseOf(AtFirstBlankLine(cgi_run.stdout_buf)[1][1], <<>>).headers
             /\ cgi_run.response[1].status_code =
                    CgiResponseOf(AtFirstBlankLine(cgi_run.stdout_buf)[1][1], <<>>).status_code

\* the output "Content-Type: text/html\n\n\r\n\r\n": the bytes after the
\* first blank line are "\r\n\r\n", and the response has an empty body
C22_Witness ==
    /\ cgi_run.pc = "done"
    /\ cgi_run.stdout_buf =
           <<"Content-Type", ":", " ", "text/html", "\n", "\n", "\r", "\n", "\r", "\n">>
    /\ cgi_run.response[1].status_code = 200
    /\ cgi_run.response[1].body = <<>>

\* the characters of the names of the model that are in [A-Za-z0-9._-]
NameCharacters(name) ==
    SelectSeq(name, LAMBDA a : a \in {"f.txt", "a", "b", "x", "etc", "passwd",
                                      ".", "-", "_"})

\* the files written by a call
Written(call) == {e \in call.out[1].effects : e.op = "write"}

Removed(call) == {e \in call.out[1].effects : e.op = "delete"}

\* uploads/<rest>, the "." components of <rest> left out
DeleteTarget(components) ==
    << <<"uploads">> >> \o SelectSeq(components, LAMBDA x : x # <<".">>)

C25_ReadBufferBounded ==
    \A fd \in DOMAIN clients : Len(clients[fd].read_buffer) <= MaxBuffer

\* a client announced a body of 99 bytes and sent filler: the buffer holds
\* more than MaxBuffer bytes, no response is queued and the connection reads on
C25_Witness ==
    \E fd \in DOMAIN clients :
        /\ Len(clients[fd].read_buffer) > MaxBuffer
        /\ Take(clients[fd].read_buffer, Len(ReqBigBody)) = ReqBigBody
        /\ clients[fd].state = "Reading"
        /\ hist[fd].queued = 0

\* C29: the loop body run for one event of a client parses the connection's
\* buffer at most once and queues at most one response.
C29_OneParsePerEvent ==
    last.step = "event" => last.parses <= 1

\* an event whose read completed a request: the buffer was parsed twice, and
\* one response was queued
C29_Witness ==
    /\ last.step = "event"
    /\ last.read_io
    /\ last.parses = 2
    /\ last.queued

\* the text with every `client_max_body_size` written `client_body_size_limit`
WithLimitName(content) ==
    [i \in 1..Len(content) |->
        IF content[i] = "client_max_body_size" THEN "client_body_size_limit"
        ELSE content[i]]

\* C26: a configuration parses to what it parses to when its
\* `client_max_body_size` directives are written `client_body_size_limit`.
C26_AliasSetsLimit ==
    last.step = "config" => last.out = parse_config_string(WithLimitName(last.content))

\* the text `client_max_body_size = 5` was parsed and the limit is the
\* default of 10 MiB
C26_Witness ==
    /\ last.step = "config"
    /\ last.lines = << <<"client_max_body_size", " ", "=", " ", "5">> >>
    /\ last.out[1] = "Ok"
    /\ last.out[2].client_body_size_limit = 10 * 1024 * 1024

\* a file system with www/index.html
ConfigFs ==
    [p \in {<< <<"www">> >>, << <<"www">>, <<"index.html">> >>} |->
        IF Len(p) = 1 THEN Dir ELSE File(<<"hello">>)]

\* the status route_request gives a bodiless request for / under config
StatusFor(method, config) ==
    route_request(parse(RequestBytes(method, <<"/">>, "HTTP/1.1", <<>>, <<>>))[1],
                  config, ConfigFs).response[1].status_code

\* the text begins with a block for / that declares a root, or a redirect,
\* and no methods
MethodlessBlock(ls) ==
    /\ Len(ls) >= 3
    /\ ls[1] = <<"route", " ", "/", " ", "{">>
    /\ ls[2] \in { <<" ", " ", "root", " ", "=", " ", "www", " ", "#", " ", "files">>,
                   <<" ", " ", "redirect", " ", "=", " ", "/", "new">> }
    /\ ls[3] = <<"}">>

\* C27: a configuration that begins with a route block for / with a root or
\* a redirect and no methods has that route, with methods = (GET), as its
\* first route; under it GET / is served and POST / and DELETE / get 405.
C27_MethodsDefaultToGet ==
    last.step = "config" /\ MethodlessBlock(last.lines) =>
        /\ last.out[1] = "Ok"
        /\ Len(last.out[2].routes) >= 1
        /\ last.out[2].routes[1].path = <<"/">>
        /\ last.out[2].routes[1].methods = << <<"GET">> >>
        /\ StatusFor("GET", last.out[2]) \notin {404, 405}
        /\ StatusFor("POST", last.out[2]) = 405
        /\ StatusFor("DELETE", last.out[2]) = 405

\* the block with a root and no methods was parsed: no route was saved, and
\* GET / is answered 404
C27_Witness ==
    /\ last.step = "config"
    /\ last.lines = << <<"route", " ", "/", " ", "{">>,
                       <<" ", " ", "root", " ", "=", " ", "www", " ", "#", " ", "files">>,
                       <<"}">> >>
    /\ last.out[2].routes = <<>>
    /\ StatusFor("GET", last.out[2]) = 404

\* C28: a configuration whose first line is the text `invalid syntax here`,
\* which is no directive, is refused: the result is an error.
C28_InvalidSyntaxRefused ==
    (/\ last.step = "config"
     /\ last.lines # <<>>
     /\ last.lines[1] = <<"invalid", " ", "syntax", " ", "here">>)
        => last.out[1] = "Err"

\* the text `invalid syntax here` was parsed: the result is Ok, with the
\* default address and limit and no route
C28_Witness ==
    /\ last.step = "config"
    /\ last.lines = << <<"invalid", " ", "syntax", " ", "here">> >>
    /\ last.out[1] = "Ok"
    /\ last.out[2].routes = <<>>
    /\ last.out[2].listen_addresses = << <<"127.0.0.1", ":", "8080">> >>

\* C31: an event that carries has_error or hung_up marks the connection
\* Closing and neither reads from its socket nor writes to it, whatever else
\* the event carries; a Closing connection is in the map only until the
\* cleanup pass of the iteration, which removes every one of them.
C31_ErrorEventClosesWithoutIo ==
    /\ (last.step = "event" /\ (last.event.has_error \/ last.event.hung_up)) =>
          /\ ~last.read_io
          /\ ~last.write_io
          /\ last.read_n = 0
          /\ last.write_n = 0
          /\ ~last.queued
          /\ clients[last.fd].state = "Closing"
    /\ phase = "wait" => \A fd \in DOMAIN clients : clients[fd].state # "Closing"
    /\ last.step = "cleanup" =>
          /\ last.closing \subseteq last.removed
          /\ last.removed \cap DOMAIN clients = {}

\* an event with has_error and can_write has just met a connection with part
\* of its response still to write
C31_Witness ==
    /\ last.step = "event"
    /\ last.event.has_error
    /\ last.event.can_write
    /\ last.state_before = "Writing"
    /\ ~last.write_io
    /\ clients[last.fd].state = "Closing"
    /\ clients[last.fd].bytes_written < Len(clients[last.fd].write_buffer)

\* C32: after a cleanup pass no connection in the map is Closing; every
\* connection the pass removed is registered with the poller no more and its
\* socket is gone; and the pass removed only connections that were Closing
\* or idle for more than IDLE_TIMEOUT_SECS seconds.
C32_CleanupRemovesExactly ==
    last.step = "cleanup" =>
        /\ \A fd \in DOMAIN clients : clients[fd].state # "Closing"
        /\ last.removed \cap DOMAIN clients = {}
        /\ last.removed \cap DOMAIN interest = {}
        /\ last.removed \cap DOMAIN socks = {}
        /\ last.removed = last.closing \cup last.expired

\* Of three connections a cleanup pass has just removed one that was Closing
\* and one that was idle for too long, and kept the third
C32_Witness ==
    /\ last.step = "cleanup"
    /\ last.closing # {}
    /\ last.expired \ last.closing # {}
    /\ \E fd \in DOMAIN clients :
          /\ fd \notin last.removed
          /\ clients[fd].state = "Reading"
          /\ fd \in DOMAIN interest

\* C33: the loop body for an event of one client socket changes only that
\* connection: every other connection stays in the map with its state,
\* buffers and counters, its registration with the poller and its socket as
\* they were, and the loop goes on with the events that are left.
C33_OnlyThatConnectionChanges ==
    [][(phase = "events" /\ last'.step \in {"event", "abort"}) =>
          /\ phase' = "events"
          /\ \A g \in (DOMAIN clients) \ {last'.fd} :
                /\ g \in DOMAIN clients'
                /\ clients'[g] = clients[g]
                /\ interest'[g] = interest[g]
                /\ socks'[g] = socks[g]]_vars

\* route_request has just panicked in the event of one connection while
\* another connection was writing its response
C33_Witness ==
    /\ last.step = "abort"
    /\ phase = "aborted"
    /\ last.state_before = "Reading"
    /\ last.lost # {}
    /\ clients = EmptyMap

\* C34: an event of the listener accepts every pending connection (as long
\* as a descriptor is free); every connection it puts in the map is Reading,
\* registered for reading only; whatever fails in the setup of an accepted
\* socket, the connections in the map stay as they were and the loop goes on
\* with the events that are left.
C34_AcceptSetsUpOrDrops ==
    [][(phase = "events" /\ \E e \in batch \ batch' : e.fd = ListenerFd) =>
          /\ phase' = "events"
          /\ backlog' = 0 \/ FdsPair \subseteq DOMAIN socks'
          /\ \A fd \in DOMAIN clients :
                /\ fd \in DOMAIN clients'
                /\ clients'[fd] = clients[fd]
                /\ interest'[fd] = interest[fd]
          /\ \A fd \in (DOMAIN clients') \ DOMAIN clients :
                /\ clients'[fd] = ClientConnection_new
                /\ interest'[fd] = Interest_readable]_vars

\* run has returned the error of set_nonblocking while a connection was in
\* the map and another one was pending
C34_Witness ==
    /\ phase = "stopped"
    /\ last.step = "stop"
    /\ last.lost # {}
    /\ backlog > 0

\* C35: under a fair event loop a connection in state Writing does not stay
\* in it for ever: it is reset, marked Closing or removed from the map.
C35_WritingEnds ==
    \A fd \in Fds :
        (fd \in DOMAIN clients /\ clients[fd].state = "Writing")
            ~> (fd \notin DOMAIN clients \/ clients[fd].state # "Writing")

\* a connection is Writing, part of its response written, its client silent
\* for more than IDLE_TIMEOUT_SECS seconds
C35_Witness ==
    \E fd \in DOMAIN clients :
        /\ clients[fd].state = "Writing"
        /\ clients[fd].bytes_written > 0
        /\ clients[fd].bytes_written < Len(clients[fd].write_buffer)
        /\ clients[fd].last_activity > IDLE_TIMEOUT_SECS

\* C36: when several routes have the same path and no route whose path is a
\* prefix of the request path has a longer one, the route declared first of
\* them answers.
C36_FirstDeclaredWinsTie ==
    (PassesGates(last) /\ last.config.vhosts = <<>>
        /\ \A i \in 1..Len(last.config.routes) :
              /\ last.config.routes[i].redirect # None
              /\ last.config.routes[i].methods = <<last.request[1].method>>)
    => LET routes   == last.config.routes
           path     == last.request[1].path
           prefixes == {i \in 1..Len(routes) : starts_with(path, routes[i].path)}
           longest  == {i \in prefixes :
                           \A j \in prefixes : Len(routes[j].path) <= Len(routes[i].path)}
       IN  Cardinality(longest) > 1 =>
               LocationOf(last) = routes[Minimum(longest)].redirect

\* /a was requested under two routes /a, and the second one answered
C36_Witness ==
    /\ PassesGates(last)
    /\ last.request[1].path = <<"/", "a">>
    /\ Len(last.config.routes) = 2
    /\ last.config.routes[1].path = <<"/", "a">>
    /\ last.config.routes[2].path = <<"/", "a">>
    /\ LocationOf(last) = Some(<<"/", "to", "2">>)

\* C37: while the loop waits in poll, between two iterations, every
\* connection in the map is Reading and registered for reading only, or
\* Writing and registered for writing only; an event in which poller.modify
\* failed leaves the connection Closing, and no Closing connection outlives
\* the iteration.
C37_InterestMatchesState ==
    /\ phase = "wait" =>
          \A fd \in DOMAIN clients :
              /\ fd \in DOMAIN interest
              /\ clients[fd].state \in {"Reading", "Writing"}
              /\ clients[fd].state = "Reading" => interest[fd] = Interest_readable
              /\ clients[fd].state = "Writing" => interest[fd] = Interest_writable
    /\ (last.step = "event" /\ last.modify_failed) =>
          /\ clients[last.fd].state = "Closing"
          /\ phase = "events"
    /\ last.step = "cleanup" => last.closing \cap DOMAIN interest = {}

\* an event has just queued a response and poller.modify failed
C37_Witness ==
    /\ last.step = "event"
    /\ last.queued
    /\ last.modify_failed
    /\ clients[last.fd].state = "Closing"
    /\ interest[last.fd] = Interest_readable

\* C38: a descriptor names one connection for as long as that connection is
\* in the map.  The connections in the map are those whose sockets are open
\* and registered; accept inserts connections under descriptors that were
\* not in the map and leaves the entries of the map in place; between poll
\* and the cleanup pass no entry leaves the map, so that every event of the
\* batch meets the connection it was generated for.
C38_DescriptorNamesOneConnection ==
    /\ [](DOMAIN clients = DOMAIN socks /\ DOMAIN clients = DOMAIN interest)
    /\ [](\A e \in batch : e.fd # ListenerFd => e.fd \in DOMAIN clients)
    /\ [][(phase = "events" /\ phase' = "events") =>
            /\ DOMAIN clients \subseteq DOMAIN clients'
            /\ last'.accepted = (DOMAIN clients') \ DOMAIN clients
            /\ \A e \in batch' : e.fd \notin last'.accepted]_vars

\* the listener's event has just inserted a connection while an event of an
\* older connection waits in the batch and no descriptor is left
C38_Witness ==
    /\ phase = "events"
    /\ last.accepted # {}
    /\ \E e \in batch : e.fd \in (DOMAIN clients) \ last.accepted
    /\ DOMAIN clients = FdsPair

\* C39: when the last byte of a response was written (and the poller did
\* not refuse a change of interest), the connection is Closing only if the
\* response carried Connection: close, and it is Reading if the response
\* carried Connection: keep-alive.
C39_ConnectionHeaderKept ==
    (last.step = "event" /\ last.write_done /\ ~last.modify_failed) =>
        /\ clients[last.fd].state = "Closing" =>
               last.resp_connection = Some("close")
        /\ last.resp_connection = Some("keep-alive") =>
               clients[last.fd].state = "Reading"

\* the last byte of a response with Connection: keep-alive was written on a
\* connection that had handled MAX_REQUESTS_PER_CONN requests, and the
\* connection is Closing
C39_Witness ==
    /\ last.step = "event"
    /\ last.write_done
    /\ ~last.modify_failed
    /\ last.resp_connection = Some("keep-alive")
    /\ last.rh_before = MAX_REQUESTS_PER_CONN
    /\ clients[last.fd].state = "Closing"
    /\ hist[last.fd].written = MAX_REQUESTS_PER_CONN + 1

\* C40: when run_cgi has returned after spawning the child, the child runs
\* no more and its exit status has been collected.
C40_ChildReaped ==
    cgi_run.pc = "done" =>
        /\ cgi_run.child # "running"
        /\ cgi_run.waited

\* run_cgi has returned 504 and the child it killed was never waited for
C40_Witness ==
    /\ cgi_run.pc = "done"
    /\ cgi_run.response # None
    /\ cgi_run.response[1].status_code = 504
    /\ cgi_run.child = "killed"
    /\ ~cgi_run.waited

====
